---- MODULE Spec2Model ----
(***************************************************************************)
(* A model of the access-and-export layer of slack-4-agents: the retrying  *)
(* invoker (withRetry), the channel directory (channelIndex), the channel  *)
(* population loop (fetchAllChannels), the top-level tool operations and   *)
(* the chronological export pipeline (ExportChannel).                      *)
(*                                                                         *)
(* Each component has its own specification (SpecRetry, SpecDir, ...):     *)
(* the variables of the other components keep their initial values.        *)
(***************************************************************************)
EXTENDS Integers, Sequences, FiniteSets, TLC

VARIABLES
    \* ---- withRetry (one call of the retrying invoker) ----
    rScript,      \* what fn returns on its 1st, 2nd, ... invocation
    rPc,          \* position of withRetry: "call", "select", "wait", "done"
    rCalls,       \* number of invocations of fn so far
    rWaits,       \* the durations withRetry has waited out, in order
    rCtxDone,     \* ctx.Done() is closed
    rSelected,    \* the case that woke the parked select: "none", "timer", "ctx"
    rRet,         \* the value withRetry returned (Pending until it returns)
    rCancelCalls  \* rCalls when ctx was cancelled while parked (-1: never)

retryVars == <<rScript, rPc, rCalls, rWaits, rCtxDone, rSelected, rRet, rCancelCalls>>

VARIABLES
    \* ---- ExportChannel (one call) and the remote it talks to ----
    eHistory,     \* remote: the channel's top-level messages, newest first
    ePageLen,     \* remote: the most messages it puts in one page
    ePc,          \* position of the export
    eCtxDone,     \* ctx.Done() is closed
    eCursor,      \* the loop's cursor variable
    eReqCursor,   \* the cursor carried by the page request issued last
    eLastNext,    \* next-cursor of the last successful page of this fetch
    eLastMore,    \* has-more of the last successful page of this fetch
    eAttempt,     \* how often the current page request has been issued
    ePages,       \* successful page responses of this fetch
    eRequests,    \* page requests issued in this fetch
    ePage,        \* messages of the current page not yet processed
    eDelivered,   \* every message list-history has returned, in arrival order
    eRecords,     \* the line written to the scratch file for each of them
    eTmp,         \* scratch file: [exists, bytes]
    eOffsets,     \* offsets: start of each line in the scratch file
    ePos,         \* pos: bytes written to the scratch file
    eThreads,     \* threadsToExport
    eThreadIdx,   \* index in eThreads of the thread being written (0: none yet)
    eReplies,     \* every reply list-thread-replies has returned for this thread
    eThreadFiles, \* thread files on disk: sequence of [name, lines, complete]
    eThreadRefs,  \* threadFiles: the FileRefs returned by writeThreadFile
    eMain,        \* main output file: [exists, bytes]
    eStats,       \* exportStats
    eUserNames,   \* userNames: the authors whose name is cached
    eUserCalls,   \* get-user requests issued, per author
    eRateLimits,  \* rate-limit errors the remote has answered with
    eLookupFails, \* get-user requests the remote has failed
    eWaitOf,      \* the fetch that is waiting out a rate limit: "history", "thread"
    eFailure,     \* the error that made the export give up (Nil: none so far)
    eRet,         \* the error ExportChannel returned (Pending until it returns)
    eOut          \* ExportChannelOutput: [lines, bytes, threadFiles, stats]

exportVars ==
    <<eHistory, ePageLen, ePc, eCtxDone, eCursor, eReqCursor, eLastNext, eLastMore,
      eAttempt, ePages, eRequests, ePage, eDelivered, eRecords, eTmp, eOffsets, ePos,
      eThreads, eThreadIdx, eReplies, eThreadFiles, eThreadRefs, eMain, eStats,
      eUserNames, eUserCalls, eRateLimits, eLookupFails, eWaitOf, eFailure, eRet,
      eOut>>

VARIABLES
    \* ---- the channel directory (channelIndex) and name resolution ----
    dIndex,       \* the index: [names, ids], two maps from lowercased key to channel
    dAdded,       \* every channel handed to Add so far, in order
    dAdds,        \* calls of Add so far
    dLock,        \* the index's mutex: "free", or "write" while Add holds it
    dPending,     \* the channels the Add under way has still to insert
    dBounds,      \* the lengths dAdded had when no Add was under way
    \* per caller (goroutine) of GetChannelID:
    dPc,          \* position of GetChannelID: "idle", "size"
    dQuery,       \* the argument of the last GetChannelID call
    dName,        \* findChannelID's name, the argument without its leading '#'
    dSeen,        \* dAdded at the moment of that call's GetByName
    dLooked,      \* that call has read the index
    dAnswer       \* what the last GetChannelID call returned: [id, err]

dirVars ==
    <<dIndex, dAdded, dAdds, dLock, dPending, dBounds, dPc, dQuery, dName, dSeen,
      dLooked, dAnswer>>

VARIABLES
    \* ---- fetchAllChannels (one call) and the remote listing ----
    fListing,     \* remote: the workspace's channels in listing order
    fPageLen,     \* remote: the most channels it puts in one page
    fPc,          \* position: "select", "call", "wait", "page", "after", "done"
    fCtxDone,     \* ctx.Done() is closed
    fCursor,      \* cursor
    fNextCursor,  \* nextCursor of the page just fetched
    fPage,        \* page just fetched
    fChannels,    \* channels
    fPageCount,   \* pageCount
    fRateLimits,  \* rate-limit errors the remote has answered with
    fRet,         \* the error returned (Pending until it returns)
    fOut          \* the channels returned

listVars ==
    <<fListing, fPageLen, fPc, fCtxDone, fCursor, fNextCursor, fPage, fChannels,
      fPageCount, fRateLimits, fRet, fOut>>

VARIABLES
    \* ---- one call of a top-level operation ----
    oOp,          \* the operation and the variant of its input
    oSite,        \* index of the remote call site the operation is at
    oPc,          \* position: "call", "wait", "done"
    oCtxDone,     \* ctx.Done() is closed
    oIssued,      \* every remote request issued: sequence of [api, retried]
    oRateLimits,  \* rate-limit errors the remote has answered with
    oSwallowed,   \* errors of remote calls the operation has ignored
    oRet          \* the error the operation returned (Pending until it returns)

opsVars == <<oOp, oSite, oPc, oCtxDone, oIssued, oRateLimits, oSwallowed, oRet>>

\* one call of isChannelID
VARIABLES
    sInput,       \* the string it is called with
    sPc,          \* "call" before it has returned, "done" after
    sGot          \* what it returned

shapeVars == <<sInput, sPc, sGot>>

\* two concurrent calls of ExportChannel on one client
VARIABLES
    pDisk,        \* the responses directory: the lines of each file, by path
    pClock,       \* the last reading of time.Now().UnixNano()
    pCall         \* per call: its position, its locals and what it returned

pairVars == <<pDisk, pClock, pCall>>

\* one call of a tool through errorWrappingHandler
VARIABLES
    wOp,          \* the operation the handler forwards to
    wPc,          \* "call", "returned" once the operation is back, "done"
    wErr,         \* the error the operation returned
    wOut          \* the error the handler returns to the caller of the tool

wrapVars == <<wOp, wPc, wErr, wOut>>

\* one call of the findChannelID that searches the remote listing, with its
\* fetcher goroutine
VARIABLES
    gListing,     \* remote: the workspace's channels in listing order
    gPageLen,     \* remote: the most channels it puts in one page
    gName,        \* the name findChannelID is called with
    gCache,       \* c.channelID: channel name to ID
    gCtxDone,     \* the Done channel of the context made by WithCancel is closed
    gPages,       \* the pages channel: the pages sent and not yet received
    gClosed,      \* the pages channel is closed
    gFetchPc,     \* fetcher: "none", "select", "call", "wait", "send", "done"
    gCursor,      \* fetcher: cursor
    gPage,        \* fetcher: the channelPage it has to send, with nextCursor
    gObserved,    \* fetcher: it has taken a <-ctx.Done() case or got ctx.Err()
    gRequests,    \* page requests issued
    gRateLimits,  \* rate-limit errors the remote has answered with
    gProcPc,      \* findChannelID: "start", "recv", "scan", "done"
    gScan,        \* findChannelID: channels of the received page not yet looked at
    gRet          \* what findChannelID returned: [id, err]

searchVars ==
    <<gListing, gPageLen, gName, gCache, gCtxDone, gPages, gClosed, gFetchPc, gCursor,
      gPage, gObserved, gRequests, gRateLimits, gProcPc, gScan, gRet>>

vars ==
    <<retryVars, exportVars, dirVars, listVars, opsVars, shapeVars, pairVars, wrapVars,
      searchVars>>

\* the variables of the other components, which a component's steps leave alone
nonRetryVars ==
    <<exportVars, dirVars, listVars, opsVars, shapeVars, pairVars, wrapVars,
      searchVars>>
nonExportVars ==
    <<retryVars, dirVars, listVars, opsVars, shapeVars, pairVars, wrapVars,
      searchVars>>
nonDirVars ==
    <<retryVars, exportVars, listVars, opsVars, shapeVars, pairVars, wrapVars,
      searchVars>>
nonListVars ==
    <<retryVars, exportVars, dirVars, opsVars, shapeVars, pairVars, wrapVars,
      searchVars>>
nonOpsVars ==
    <<retryVars, exportVars, dirVars, listVars, shapeVars, pairVars, wrapVars,
      searchVars>>
nonShapeVars ==
    <<retryVars, exportVars, dirVars, listVars, opsVars, pairVars, wrapVars,
      searchVars>>
nonPairVars ==
    <<retryVars, exportVars, dirVars, listVars, opsVars, shapeVars, wrapVars,
      searchVars>>
nonWrapVars ==
    <<retryVars, exportVars, dirVars, listVars, opsVars, shapeVars, pairVars,
      searchVars>>
nonSearchVars ==
    <<retryVars, exportVars, dirVars, listVars, opsVars, shapeVars, pairVars, wrapVars>>

(***************************************************************************)
(* Bounds of the model.                                                    *)
(***************************************************************************)
MaxRetries == 3      \* rate-limit errors in a row that fn may return
MaxRetryAfter == 2   \* largest Retry-After the remote names
MaxMsgs == 3         \* top-level messages in the exported channel
MaxPageLen == 2      \* messages the remote puts in one page
MaxPages == 3        \* pages the remote serves in one paginated fetch
MaxAdds == 2         \* calls of channelIndex.Add
MaxChannels == 3     \* channels of the workspace that fetchAllChannels lists
MaxListPageLen == 2  \* channels the remote puts in one page
MaxRateLimits == 1   \* rate-limit errors the remote answers one export with
MaxLookupFails == 1  \* get-user requests the remote fails in one export

(***************************************************************************)
(* Errors.  An error value is a record; kind "nil" is Go's nil error.      *)
(***************************************************************************)
Nil == [kind |-> "nil", retryAfter |-> 0, wrap |-> <<>>]
Pending == [kind |-> "pending", retryAfter |-> 0, wrap |-> <<>>]
RateLimitedError(d) == [kind |-> "rate_limited", retryAfter |-> d, wrap |-> <<>>]
ContextCanceled == [kind |-> "context_canceled", retryAfter |-> 0, wrap |-> <<>>]
OtherError == [kind |-> "other", retryAfter |-> 0, wrap |-> <<>>]
\* the error of a file operation that failed
IOError == [kind |-> "io", retryAfter |-> 0, wrap |-> <<>>]

\* fmt.Errorf("<text>: %w", err): the text is put in front, the cause is kept
Errorf(text, err) == [err EXCEPT !.wrap = <<text>> \o @]

Durations == 0..MaxRetryAfter

\* the error of a remote call that Slack answered with "ok": false and a code
SlackError(code) == [kind |-> "slack", retryAfter |-> 0, wrap |-> <<>>, code |-> code]

\* authErrorCodes: the codes that mean an authentication problem, each with the
\* guidance given for it
authErrorCodes ==
    ("invalid_auth" :> "Authentication token is invalid. Please refresh your SLACK_TOKEN and SLACK_COOKIE.")
    @@ ("token_expired" :> "Authentication token has expired. Please refresh your SLACK_TOKEN and SLACK_COOKIE.")
    @@ ("token_revoked" :> "Authentication token has been revoked. Please generate new credentials.")
    @@ ("account_inactive" :> "The Slack account is inactive or disabled.")
    @@ ("not_authed" :> "No authentication token provided. Please set SLACK_TOKEN and SLACK_COOKIE.")

\* &AuthError{Code: code, Message: message}; the type has no Unwrap method
AuthError(code, message) ==
    [kind |-> "auth", retryAfter |-> 0, wrap |-> <<>>, code |-> code, message |-> message]

\* err.Error() of an error nothing was put in front of, as a sequence of pieces
\* of text
CauseString(err) ==
    CASE err.kind = "slack" -> <<err.code>>
      [] err.kind = "context_canceled" -> <<"context canceled">>
      [] err.kind = "rate_limited" ->
           <<"slack rate limit exceeded, retry after", ToString(err.retryAfter)>>
      [] err.kind = "other" -> <<"remote error">>
      [] err.kind = "io" -> <<"input/output error">>
      [] err.kind = "not_found" ->
           <<"channel">> \o err.name
           \o <<"not found in index", ToString(err.entries),
                "entries; use a channel ID or call slack_list_channels first">>
      [] err.kind = "auth" ->
           <<"SLACK AUTHENTICATION ERROR:", err.message, "code:", err.code>>
      [] OTHER -> <<>>

\* err.Error(): the texts put in front by fmt.Errorf, then the cause's own text
ErrorString(err) == err.wrap \o CauseString(err)

\* strings.Contains(errStr, code)
ContainsAtStart(errStr, code) == errStr # <<>> /\ errStr[1] = code
Contains(errStr, code) == \E i \in DOMAIN errStr : errStr[i] = code

\* matchAuthError: the AuthError of a code found in the error's text; Go ranges
\* over the map in no fixed order, so with several codes in the text any one of
\* them can be the one returned.  The empty set is the nil result.
matchAuthError(err) ==
    IF err = Nil
    THEN {}
    ELSE {AuthError(code, authErrorCodes[code]) :
            code \in {c \in DOMAIN authErrorCodes : Contains(ErrorString(err), c)}}

\* WrapError(logger, operation, err): the errors it can return
WrapError(operation, err) ==
    IF err = Nil
    THEN {Nil}
    ELSE IF matchAuthError(err) # {}
    THEN matchAuthError(err)
    ELSE {Errorf(operation, err)}

\* errors.As(err, &rateLimitErr)
IsRateLimitedAlways(err) == err.kind # "nil"
IsRateLimitedNever(err) == FALSE
IsRateLimited(err) == err.kind = "rate_limited"

\* ctx.Err() once ctx.Done() is closed
CtxErr == ContextCanceled

\* select { case <-ctx.Done(): ...; default: }: the Done case is taken exactly
\* when the channel is closed, default otherwise
SelectDoneNever(ctxDone) == FALSE
SelectDone(ctxDone) == ctxDone

(***************************************************************************)
(* The select of withRetry over time.After(RetryAfter) and ctx.Done().     *)
(* ReadyCases: the cases that can proceed when the select is entered; with *)
(* none ready the goroutine parks and the first event to arrive wakes it   *)
(* with that case.                                                         *)
(***************************************************************************)
ReadyCases(d, ctxDone) ==
    (IF d = 0 THEN {"timer"} ELSE {}) \cup (IF ctxDone THEN {"ctx"} ELSE {})

\* the outcome of a select case: "continue" re-issues fn, "return" gives up
SelectOutcomeIgnoreCtx(case) == "continue"
SelectOutcome(case) == IF case = "timer" THEN "continue" ELSE "return"

\* the scripts of fn: k rate-limit errors, then one outcome that ends the loop
RECURSIVE RateRuns(_)
RateRuns(k) ==
    IF k = 0 THEN {<<>>}
    ELSE {Append(s, RateLimitedError(d)) : s \in RateRuns(k - 1), d \in Durations}

FnScripts ==
    UNION {{Append(s, e) : s \in RateRuns(k), e \in {Nil, OtherError, ContextCanceled}}
           : k \in 0..MaxRetries}

RetryZero ==
    /\ rCalls = 0
    /\ rWaits = <<>>
    /\ rCtxDone = FALSE
    /\ rSelected = "none"
    /\ rRet = Pending
    /\ rCancelCalls = -1

RetryInit ==
    /\ rScript \in FnScripts
    /\ rPc = "call"
    /\ RetryZero

\* no withRetry call is under way (the specifications of the other components)
RetryIdle ==
    /\ rScript = <<Nil>>
    /\ rPc = "idle"
    /\ RetryZero

\* err := fn(); nil and every error that is no rate limit end the loop
RetryCallFn ==
    /\ rPc = "call"
    /\ rCalls < Len(rScript)
    /\ LET err == rScript[rCalls + 1] IN
         /\ rCalls' = rCalls + 1
         /\ IF err = Nil
            THEN rPc' = "done" /\ rRet' = Nil
            ELSE IF IsRateLimited(err)
                 THEN rPc' = "select" /\ rRet' = rRet
                 ELSE rPc' = "done" /\ rRet' = err
    /\ UNCHANGED <<rScript, rWaits, rCtxDone, rSelected, rCancelCalls>>
    /\ UNCHANGED nonRetryVars

\* what withRetry does once a case of the select has been chosen
RetryTakeCase(case) ==
    IF SelectOutcome(case) = "continue"
    THEN /\ rPc' = "call"
         /\ rWaits' = Append(rWaits, rScript[rCalls].retryAfter)
         /\ rRet' = rRet
    ELSE /\ rPc' = "done"
         /\ rRet' = CtxErr
         /\ rWaits' = rWaits

\* the select statement is entered: a ready case is taken, else the goroutine parks
RetryEnterSelect ==
    /\ rPc = "select"
    /\ LET ready == ReadyCases(rScript[rCalls].retryAfter, rCtxDone) IN
         IF ready = {}
         THEN /\ rPc' = "wait"
              /\ UNCHANGED <<rWaits, rRet>>
         ELSE \E case \in ready : RetryTakeCase(case)
    /\ rSelected' = "none"
    /\ UNCHANGED <<rScript, rCalls, rCtxDone, rCancelCalls>>
    /\ UNCHANGED nonRetryVars

\* the timer of time.After fires while the goroutine is parked
RetryTimerFires ==
    /\ rPc = "wait"
    /\ rSelected = "none"
    /\ rSelected' = "timer"
    /\ UNCHANGED <<rScript, rPc, rCalls, rWaits, rCtxDone, rRet, rCancelCalls>>
    /\ UNCHANGED nonRetryVars

\* the caller cancels ctx; a parked select is woken with the ctx.Done() case
RetryCancel ==
    /\ ~rCtxDone
    /\ rPc # "done"
    /\ rCtxDone' = TRUE
    /\ IF rPc = "wait" /\ rSelected = "none"
       THEN rSelected' = "ctx" /\ rCancelCalls' = rCalls
       ELSE UNCHANGED <<rSelected, rCancelCalls>>
    /\ UNCHANGED <<rScript, rPc, rCalls, rWaits, rRet>>
    /\ UNCHANGED nonRetryVars

\* the woken goroutine runs the case that woke it
RetryResume ==
    /\ rPc = "wait"
    /\ rSelected # "none"
    /\ RetryTakeCase(rSelected)
    /\ rSelected' = "none"
    /\ UNCHANGED <<rScript, rCalls, rCtxDone, rCancelCalls>>
    /\ UNCHANGED nonRetryVars

RetryNext ==
    \/ RetryCallFn
    \/ RetryEnterSelect
    \/ RetryTimerFires
    \/ RetryCancel
    \/ RetryResume


(***************************************************************************)
(* Claims about withRetry.                                                 *)
(***************************************************************************)
\* the script is k rate-limit errors followed by nil
RateThenNil(s) ==
    /\ s[Len(s)] = Nil
    /\ \A i \in 1..(Len(s) - 1) : s[i].kind = "rate_limited"

\* C3: if fn returns a rate-limit error on its first k invocations and nil on
\* invocation k+1 and ctx is never cancelled, then withRetry, once returned, has
\* invoked fn exactly k+1 times, has waited exactly the k server-named durations
\* in order, and has returned nil; k ranges over 0..MaxRetries.
C3_RetryUntilSuccess ==
    (rPc = "done" /\ ~rCtxDone /\ RateThenNil(rScript)) =>
        /\ rCalls = Len(rScript)
        /\ rRet = Nil
        /\ rWaits = [i \in 1..(Len(rScript) - 1) |-> rScript[i].retryAfter]

C3_Witness ==
    /\ rPc = "done" /\ ~rCtxDone /\ RateThenNil(rScript)
    /\ Len(rScript) = MaxRetries + 1
    /\ rCalls = MaxRetries + 1
    /\ rRet = Nil

\* C4: once ctx is cancelled while withRetry is parked in the rate-limit wait,
\* fn is not invoked again, and when withRetry returns it returns ctx.Err().
C4_CancelDuringWait ==
    (rCancelCalls # -1) =>
        /\ rCalls = rCancelCalls
        /\ rPc \in {"wait", "done"}
        /\ (rPc = "done" => rRet = CtxErr)

C4_Witness ==
    /\ rCancelCalls = 1
    /\ rPc = "done"
    /\ rRet = CtxErr
    /\ rCalls = 1
    /\ Len(rScript) > 1

\* C6: when an invocation of fn returns an error that is no rate-limit error,
\* withRetry has returned exactly that error and that invocation was the last.
C6_OtherErrorTerminal ==
    \A i \in 1..rCalls :
        (rScript[i] # Nil /\ rScript[i].kind # "rate_limited") =>
            /\ rPc = "done"
            /\ rRet = rScript[i]
            /\ rCalls = i

C6_Witness ==
    /\ rPc = "done"
    /\ rCalls = 2
    /\ rScript[2] = OtherError
    /\ rRet = OtherError


(***************************************************************************)
(* Data of the export: messages, timestamps, the remote's content.         *)
(***************************************************************************)
Min(a, b) == IF a < b THEN a ELSE b

\* a Slack timestamp "<sec>.<usec>"; NoTs is the empty Timestamp ""
Ts(sec, usec) == [sec |-> sec, usec |-> usec]
NoTs == Ts(0, 0)

Reaction(name, count) == [name |-> name, count |-> count]

Message(ts, user, text, replyCount, reactions) ==
    [ts |-> ts, user |-> user, text |-> text, replyCount |-> replyCount,
     reactions |-> reactions]

\* the messages a channel may hold, newest first; "" is a message without author
M1 == Message(Ts(104, 1), "U1", "m1", 0, <<Reaction("a", 1)>>)
M2 == Message(Ts(103, 2), "U2", "m2", 2, <<>>)
M3 == Message(Ts(103, 1), "", "m3", 0, <<Reaction("a", 2), Reaction("b", 1)>>)
M4 == Message(Ts(101, 0), "U1", "m4", 1, <<Reaction("b", 1)>>)
AllMessages == <<M1, M2, M3, M4>>

R21 == Message(Ts(105, 0), "U1", "r21", 0, <<Reaction("a", 2)>>)
R22 == Message(Ts(106, 0), "U2", "r22", 0, <<>>)
R41 == Message(Ts(102, 0), "U2", "r41", 0, <<>>)

\* remote: the replies of the thread with the given parent, oldest first
Replies(parent) ==
    IF parent = M2 THEN <<R21, R22>>
    ELSE IF parent = M4 THEN <<R41>>
    ELSE <<>>

\* remote: what list-thread-replies lists for a parent: the parent, then its replies
ThreadListing(parent) == <<parent>> \o Replies(parent)

Users == {"U1", "U2"}
\* remote: the display name get-user answers with
RemoteUserName(u) == IF u = "U1" THEN "alice" ELSE "bob"

\* the elements of seq whose index is in S, in order
RECURSIVE Pick(_, _)
Pick(seq, S) ==
    IF seq = <<>> THEN <<>>
    ELSE LET front == Pick(SubSeq(seq, 1, Len(seq) - 1), S) IN
         IF Len(seq) \in S THEN Append(front, seq[Len(seq)]) ELSE front

Histories ==
    {Pick(AllMessages, S) :
        S \in {T \in SUBSET (1..Len(AllMessages)) : Cardinality(T) <= MaxMsgs}}

(***************************************************************************)
(* Remote pagination.  A cursor is an opaque token; NoCursor is "".        *)
(***************************************************************************)
NoCursor == 0
CursorAt(pos) == pos + 1
PosOf(cursor) == IF cursor = NoCursor THEN 0 ELSE cursor - 1

\* remote: the page of listing that the request with this cursor is answered with
ServePage(listing, cursor, pageLen) ==
    SubSeq(listing, PosOf(cursor) + 1, Min(PosOf(cursor) + pageLen, Len(listing)))

\* the loop goes on after a page: if !hasMore || nextCursor == "" { break }
MorePagesHasMoreOnly(hasMore, nextCursor) == hasMore
MorePages(hasMore, nextCursor) == ~(~hasMore \/ nextCursor = NoCursor)

(***************************************************************************)
(* Serialisation.  A file is a sequence of bytes; a byte is modelled by a  *)
(* token (a JSON key or value), NL is the byte '\n'.                       *)
(***************************************************************************)
NL == "\n"

\* Timestamp.String: the seconds of the timestamp as a time of day; "" stays ""
TsString(ts) == IF ts = NoTs THEN "" ELSE ToString(ts.sec)

\* Timestamp.Raw
TsRaw(ts) == ts

RECURSIVE ReactionTokens(_)
ReactionTokens(reactions) ==
    IF reactions = <<>> THEN <<>>
    ELSE <<reactions[1].name, ToString(reactions[1].count)>>
         \o ReactionTokens(Tail(reactions))

buildExportMessage(msg, threadTs, userName) ==
    [timestamp |-> msg.ts, user |-> msg.user, userName |-> userName,
     text |-> msg.text, threadTs |-> threadTs, replyCount |-> msg.replyCount,
     reactions |-> msg.reactions]

\* json.Marshal of an ExportMessage, the omitempty fields left out when empty
MarshalExportMessage(em) ==
    <<"timestamp", TsString(em.timestamp), "user", em.user>>
    \o (IF em.userName # "" THEN <<"user_name", em.userName>> ELSE <<>>)
    \o <<"text", em.text>>
    \o (IF em.threadTs # NoTs THEN <<"thread_ts", TsString(em.threadTs)>> ELSE <<>>)
    \o (IF em.replyCount # 0 THEN <<"reply_count", ToString(em.replyCount)>> ELSE <<>>)
    \o (IF em.reactions # <<>> THEN <<"reactions">> \o ReactionTokens(em.reactions)
        ELSE <<>>)

\* pos after a line of n bytes and its '\n' have been written at pos
PosAfterLineNoNewline(pos, n) == pos + n
PosAfterLine(pos, n) == pos + n + 1

\* bufio.Scanner.Scan from byte i (1-based): the bytes up to the next '\n' or EOF
RECURSIVE ScanLine(_, _)
ScanLine(bytes, i) ==
    IF i > Len(bytes) \/ bytes[i] = NL THEN <<>>
    ELSE <<bytes[i]>> \o ScanLine(bytes, i + 1)

\* one iteration of reverseCopyLines: seek, scan one line, write it and '\n';
\* at EOF Scan finds nothing and the iteration writes nothing
CopyLineAt(src, offset) ==
    IF offset >= Len(src) THEN <<>> ELSE ScanLine(src, offset + 1) \o <<NL>>

RECURSIVE ForwardCopyFrom(_, _, _)
ForwardCopyFrom(src, offsets, i) ==
    IF i > Len(offsets) THEN <<>>
    ELSE CopyLineAt(src, offsets[i]) \o ForwardCopyFrom(src, offsets, i + 1)

RECURSIVE ReverseCopyFrom(_, _, _)
ReverseCopyFrom(src, offsets, i) ==
    IF i = 0 THEN <<>>
    ELSE CopyLineAt(src, offsets[i]) \o ReverseCopyFrom(src, offsets, i - 1)

\* reverseCopyLines: the bytes written to dst
ForwardCopyLines(src, offsets) == ForwardCopyFrom(src, offsets, 1)
reverseCopyLines(src, offsets) == ReverseCopyFrom(src, offsets, Len(offsets))

(***************************************************************************)
(* exportStats                                                             *)
(***************************************************************************)
newExportStats ==
    [messageCount |-> 0, threadCount |-> 0, reactionCount |-> 0, uniqueUsers |-> {}]

RECURSIVE SumCounts(_)
SumCounts(reactions) ==
    IF reactions = <<>> THEN 0 ELSE reactions[1].count + SumCounts(Tail(reactions))

addReactions(stats, reactions) ==
    [stats EXCEPT !.reactionCount = @ + SumCounts(reactions)]

\* stats.messageCount++
countMessageNot(stats) == stats
countMessage(stats) == [stats EXCEPT !.messageCount = @ + 1]

\* stats.threadCount++
countThreadNot(stats) == stats
countThread(stats) == [stats EXCEPT !.threadCount = @ + 1]

trackUser(stats, userID) == [stats EXCEPT !.uniqueUsers = @ \cup {userID}]

(***************************************************************************)
(* getUserName, the closure of ExportChannel.  One call is one step: the   *)
(* outcome of its get-user request, if it issues one, is the remote's.     *)
(*   "none": userID is "";  "hit": the name is cached;                     *)
(*   "ok": the remote answers, the name is cached;  "fail": the request    *)
(*   fails (always so once ctx is cancelled) and the name is "".           *)
(***************************************************************************)
LookupOutcomesNoCache(userID) == IF userID = "" THEN {"none"} ELSE {"ok"}
LookupOutcomes(userID) ==
    IF userID = "" THEN {"none"}
    ELSE IF userID \in eUserNames THEN {"hit"}
    ELSE IF eCtxDone THEN {"fail"}
    ELSE {"ok"} \cup (IF eLookupFails < MaxLookupFails THEN {"fail"} ELSE {})

getUserNameStale(userID, outcome) == RemoteUserName(userID)
getUserName(userID, outcome) ==
    IF outcome \in {"hit", "ok"} THEN RemoteUserName(userID) ELSE ""

LookupEffects(userID, outcome) ==
    /\ eUserNames' = IF outcome = "ok" THEN eUserNames \cup {userID} ELSE eUserNames
    /\ eUserCalls' = IF outcome \in {"ok", "fail"}
                     THEN [eUserCalls EXCEPT ![userID] = @ + 1] ELSE eUserCalls
    /\ eLookupFails' = IF outcome = "fail" /\ ~eCtxDone
                       THEN eLookupFails + 1 ELSE eLookupFails

(***************************************************************************)
(* ExportChannel                                                           *)
(***************************************************************************)
NoFile == [exists |-> FALSE, bytes |-> <<>>]
EmptyFileMissing == [exists |-> FALSE, bytes |-> <<>>]
EmptyFile == [exists |-> TRUE, bytes |-> <<>>]
NoOutput == [lines |-> 0, bytes |-> 0, threadFiles |-> <<>>, stats |-> newExportStats]

\* the state of a call before its first step
ExportZero ==
    /\ eCtxDone = FALSE
    /\ eCursor = NoCursor
    /\ eReqCursor = NoCursor
    /\ eLastNext = NoCursor
    /\ eLastMore = FALSE
    /\ eAttempt = 0
    /\ ePages = 0
    /\ eRequests = 0
    /\ ePage = <<>>
    /\ eDelivered = <<>>
    /\ eRecords = <<>>
    /\ eTmp = NoFile
    /\ eOffsets = <<>>
    /\ ePos = 0
    /\ eThreads = <<>>
    /\ eThreadIdx = 0
    /\ eReplies = <<>>
    /\ eThreadFiles = <<>>
    /\ eThreadRefs = <<>>
    /\ eMain = NoFile
    /\ eStats = newExportStats
    /\ eUserNames = {}
    /\ eUserCalls = [u \in Users |-> 0]
    /\ eRateLimits = 0
    /\ eLookupFails = 0
    /\ eWaitOf = "none"
    /\ eFailure = Nil
    /\ eRet = Pending
    /\ eOut = NoOutput

ExportInit ==
    /\ eHistory \in Histories
    /\ ePageLen \in 1..MaxPageLen
    /\ ePc = "start"
    /\ ExportZero

\* no export is under way (the specifications of the other components)
ExportIdle ==
    /\ eHistory = <<>>
    /\ ePageLen = 1
    /\ ePc = "idle"
    /\ ExportZero

fetchVars == <<eCursor, eReqCursor, eLastNext, eLastMore, eAttempt, ePages, eRequests, ePage>>
historyVars == <<eDelivered, eRecords, eOffsets, ePos, eThreads>>
threadVars == <<eThreadIdx, eReplies, eThreadFiles, eThreadRefs>>
lookupVars == <<eUserNames, eUserCalls, eLookupFails>>
remoteVars == <<eHistory, ePageLen>>

\* ExportChannel returns err; the scratch file is removed on the way out
\* (writeHistoryToTempFile's deferred cleanup, exportChannelTwoPass's defer os.Remove)
ExportReturnKeepScratch(err, main) ==
    /\ ePc' = "done"
    /\ eRet' = err
    /\ eMain' = main
    /\ eWaitOf' = "none"
    /\ UNCHANGED <<eTmp, eOut>>
ExportReturnSuccess(err, main) ==
    /\ ePc' = "done"
    /\ eRet' = Nil
    /\ eTmp' = NoFile
    /\ eMain' = main
    /\ eWaitOf' = "none"
    /\ eOut' = [lines |-> Len(eOffsets), bytes |-> Len(main.bytes),
                threadFiles |-> eThreadRefs, stats |-> eStats]
ExportReturnError(err, main) ==
    /\ ePc' = "done"
    /\ eRet' = err
    /\ eTmp' = NoFile
    /\ eMain' = main
    /\ eWaitOf' = "none"
    /\ UNCHANGED eOut

\* a failure that leaves the main file as it is
ExportFail(err) == ExportReturnError(err, eMain)

\* ExportChannel up to the first iteration of writeHistoryToTempFile's loop:
\* newExportStats, the empty userNames cache, os.CreateTemp
ExportStart ==
    /\ ePc = "start"
    /\ ePc' = "hLoop"
    /\ eTmp' = EmptyFile
    /\ UNCHANGED <<remoteVars, eCtxDone, fetchVars, historyVars, threadVars, eMain,
                   eStats, lookupVars, eRateLimits, eWaitOf, eRet, eOut>>
    /\ UNCHANGED eFailure
    /\ UNCHANGED nonExportVars

\* the caller cancels ctx
ExportCancel ==
    /\ ePc # "done"
    /\ ~eCtxDone
    /\ eCtxDone' = TRUE
    /\ UNCHANGED <<remoteVars, ePc, fetchVars, historyVars, threadVars, eTmp, eMain,
                   eStats, lookupVars, eRateLimits, eWaitOf, eRet, eOut>>
    /\ UNCHANGED eFailure
    /\ UNCHANGED nonExportVars

\* the page request fn issues: it carries the loop's cursor variable
IssueRequest ==
    /\ eReqCursor' = eCursor
    /\ eRequests' = eRequests + 1

\* top of the history loop: select on ctx.Done(), else withRetry calls fn
ExportHistLoop ==
    /\ ePc = "hLoop"
    /\ IF SelectDone(eCtxDone)
       THEN /\ ExportFail(CtxErr)
            /\ eFailure' = CtxErr
            /\ UNCHANGED <<fetchVars, eRateLimits>>
       ELSE /\ ePc' = "hCall"
            /\ IssueRequest
            /\ eAttempt' = 1
            /\ UNCHANGED <<eCursor, eLastNext, eLastMore, ePages, ePage, eTmp, eMain,
                           eRateLimits, eWaitOf, eFailure, eRet, eOut>>
    /\ UNCHANGED <<remoteVars, eCtxDone, historyVars, threadVars, eStats, lookupVars>>
    /\ UNCHANGED nonExportVars

\* remote: the flags a successful page may carry; the last page the remote
\* serves in a fetch does not announce another
PageFlags ==
    {f \in [more : BOOLEAN, withCursor : BOOLEAN] :
        (ePages + 1 >= MaxPages) => ~(f.more /\ f.withCursor)}

NextCursorOf(page, flags) ==
    IF flags.withCursor THEN CursorAt(PosOf(eReqCursor) + Len(page)) ELSE NoCursor

\* list-history answers the request in flight
ExportHistResponse ==
    /\ ePc = "hCall"
    /\ \/ \* a page
          /\ ~eCtxDone
          /\ \E flags \in PageFlags :
               LET page == ServePage(eHistory, eReqCursor, ePageLen) IN
                 /\ ePage' = page
                 /\ eDelivered' = eDelivered \o page
                 /\ eLastMore' = flags.more
                 /\ eLastNext' = NextCursorOf(page, flags)
          /\ ePages' = ePages + 1
          /\ ePc' = "hMsgs"
          /\ UNCHANGED <<eCursor, eReqCursor, eAttempt, eRequests, eRecords, eOffsets,
                         ePos, eThreads, eTmp, eMain, eRateLimits, eWaitOf, eFailure,
                         eRet, eOut>>
       \/ \* a rate-limit error: withRetry waits
          /\ ~eCtxDone
          /\ eRateLimits < MaxRateLimits
          /\ eRateLimits' = eRateLimits + 1
          /\ ePc' = "wait"
          /\ eWaitOf' = "history"
          /\ UNCHANGED <<fetchVars, historyVars, eTmp, eMain, eFailure, eRet, eOut>>
       \/ \* another error, or the request aborted by the cancelled ctx
          /\ \E err \in (IF eCtxDone THEN {ContextCanceled} ELSE {OtherError}) :
               /\ ExportFail(Errorf("failed to get history", err))
               /\ eFailure' = err
          /\ UNCHANGED <<fetchVars, historyVars, eRateLimits>>
    /\ UNCHANGED <<remoteVars, eCtxDone, threadVars, eStats, lookupVars>>
    /\ UNCHANGED nonExportVars

\* one iteration of "for _, msg := range history.Messages"
ExportHistMsg ==
    /\ ePc = "hMsgs"
    /\ ePage # <<>>
    /\ LET msg == Head(ePage) IN
       \E outcome \in LookupOutcomes(msg.user) :
         LET b == MarshalExportMessage(
                      buildExportMessage(msg, NoTs, getUserName(msg.user, outcome)))
         IN
           /\ LookupEffects(msg.user, outcome)
           /\ eOffsets' = Append(eOffsets, ePos)
           /\ eTmp' = [eTmp EXCEPT !.bytes = @ \o b \o <<NL>>]
           /\ ePos' = PosAfterLine(ePos, Len(b))
           /\ eRecords' = Append(eRecords, b)
           /\ eStats' =
                LET s1 == addReactions(trackUser(eStats, msg.user), msg.reactions)
                    s2 == countMessage(s1)
                IN IF msg.replyCount > 0
                   THEN countThread(s2) ELSE s2
           /\ eThreads' = IF msg.replyCount > 0 THEN Append(eThreads, msg) ELSE eThreads
    /\ ePage' = Tail(ePage)
    /\ UNCHANGED <<remoteVars, ePc, eCtxDone, eCursor, eReqCursor, eLastNext, eLastMore,
                   eAttempt, ePages, eRequests, eDelivered, threadVars, eMain,
                   eRateLimits, eWaitOf, eRet, eOut>>
    /\ UNCHANGED eFailure
    /\ UNCHANGED nonExportVars

\* what exportChannelTwoPass does once writeHistoryToTempFile has returned: the
\* loop over threadsToExport, and only after it the final file
PassAfterHistoryReversal == "reverse"
PassAfterHistory == "tNext"

\* the page is processed: break out of the loop (and flush), or advance the cursor
ExportHistPageEnd ==
    /\ ePc = "hMsgs"
    /\ ePage = <<>>
    /\ IF MorePages(eLastMore, eLastNext)
       THEN /\ eCursor' = eLastNext
            /\ ePc' = "hLoop"
       ELSE /\ eCursor' = eCursor
            /\ ePc' = PassAfterHistory
    /\ UNCHANGED <<remoteVars, eCtxDone, eReqCursor, eLastNext, eLastMore, eAttempt,
                   ePages, eRequests, ePage, historyVars, threadVars, eTmp, eMain,
                   eStats, lookupVars, eRateLimits, eWaitOf, eRet, eOut>>
    /\ UNCHANGED eFailure
    /\ UNCHANGED nonExportVars

\* the wrapping of an error of the fetch that is under way
WrapFetchError(fetch, err) ==
    IF fetch = "history"
    THEN Errorf("failed to get history", err)
    ELSE Errorf("failed to write thread file", Errorf("failed to get thread replies", err))

\* withRetry's select is over: the timer has fired and fn is called again, or
\* ctx was cancelled and withRetry returns ctx.Err()
ExportWaitOver ==
    /\ ePc = "wait"
    /\ IF SelectOutcome(IF eCtxDone THEN "ctx" ELSE "timer") = "continue"
       THEN /\ ePc' = IF eWaitOf = "history" THEN "hCall" ELSE "tCall"
            /\ IssueRequest
            /\ eAttempt' = eAttempt + 1
            /\ eWaitOf' = "none"
            /\ UNCHANGED <<eCursor, eLastNext, eLastMore, ePages, ePage, eTmp, eMain,
                           eFailure, eRet, eOut>>
       ELSE /\ ExportFail(WrapFetchError(eWaitOf, CtxErr))
            /\ eFailure' = CtxErr
            /\ UNCHANGED fetchVars
    /\ UNCHANGED <<remoteVars, eCtxDone, historyVars, threadVars, eStats, lookupVars,
                   eRateLimits>>
    /\ UNCHANGED nonExportVars

CurrentParent == eThreads[eThreadIdx]

\* "for _, msg := range threadsToExport": the next writeThreadFile up to its loop
\* (the file is created, the parent counted and written), or the end of the pass
ExportThreadNext ==
    /\ ePc = "tNext"
    /\ IF eThreadIdx = Len(eThreads)
       THEN /\ ePc' = "reverse"
            /\ UNCHANGED <<fetchVars, threadVars, eStats, lookupVars>>
       ELSE LET parent == eThreads[eThreadIdx + 1] IN
            \E outcome \in LookupOutcomes(parent.user) :
              /\ LookupEffects(parent.user, outcome)
              /\ eStats' = addReactions(trackUser(eStats, parent.user), parent.reactions)
              /\ eThreadFiles' = Append(eThreadFiles,
                    [name |-> TsRaw(parent.ts),
                     lines |-> <<MarshalExportMessage(buildExportMessage(
                                    parent, NoTs, getUserName(parent.user, outcome)))>>,
                     complete |-> FALSE])
              /\ eThreadIdx' = eThreadIdx + 1
              /\ eReplies' = <<>>
              /\ eCursor' = NoCursor
              /\ eReqCursor' = NoCursor
              /\ eLastNext' = NoCursor
              /\ eLastMore' = FALSE
              /\ eAttempt' = 0
              /\ ePages' = 0
              /\ eRequests' = 0
              /\ ePage' = <<>>
              /\ ePc' = "tLoop"
              /\ eThreadRefs' = eThreadRefs
    /\ UNCHANGED <<remoteVars, eCtxDone, historyVars, eTmp, eMain, eRateLimits, eWaitOf,
                   eRet, eOut>>
    /\ UNCHANGED eFailure
    /\ UNCHANGED nonExportVars

\* top of the reply loop: select on ctx.Done(), else withRetry calls fn
ExportThreadLoop ==
    /\ ePc = "tLoop"
    /\ IF SelectDone(eCtxDone)
       THEN /\ ExportFail(Errorf("failed to write thread file", CtxErr))
            /\ eFailure' = CtxErr
            /\ UNCHANGED <<fetchVars, eRateLimits>>
       ELSE /\ ePc' = "tCall"
            /\ IssueRequest
            /\ eAttempt' = 1
            /\ UNCHANGED <<eCursor, eLastNext, eLastMore, ePages, ePage, eTmp, eMain,
                           eRateLimits, eWaitOf, eFailure, eRet, eOut>>
    /\ UNCHANGED <<remoteVars, eCtxDone, historyVars, threadVars, eStats, lookupVars>>
    /\ UNCHANGED nonExportVars

\* the value fn's assignment leaves in the loop's cursor variable when the
\* request failed: "replies, hasMore, cursor, err = c.api.Get...RepliesContext"
\* assigns the "" the API returns beside its error
CursorAfterError(cursor) == NoCursor

\* list-thread-replies answers the request in flight
ExportThreadResponse ==
    /\ ePc = "tCall"
    /\ \/ \* a page
          /\ ~eCtxDone
          /\ \E flags \in PageFlags :
               LET page == ServePage(ThreadListing(CurrentParent), eReqCursor, ePageLen)
               IN
                 /\ ePage' = page
                 /\ eReplies' = eReplies \o page
                 /\ eLastMore' = flags.more
                 /\ eLastNext' = NextCursorOf(page, flags)
                 /\ eCursor' = NextCursorOf(page, flags)
          /\ ePages' = ePages + 1
          /\ ePc' = "tMsgs"
          /\ UNCHANGED <<eReqCursor, eAttempt, eRequests, eThreadIdx, eThreadFiles,
                         eThreadRefs, eTmp, eMain, eRateLimits, eWaitOf, eFailure, eRet,
                         eOut>>
       \/ \* a rate-limit error: withRetry waits
          /\ ~eCtxDone
          /\ eRateLimits < MaxRateLimits
          /\ eRateLimits' = eRateLimits + 1
          /\ eCursor' = CursorAfterError(eCursor)
          /\ ePc' = "wait"
          /\ eWaitOf' = "thread"
          /\ UNCHANGED <<eReqCursor, eLastNext, eLastMore, eAttempt, ePages, eRequests,
                         ePage, threadVars, eTmp, eMain, eFailure, eRet, eOut>>
       \/ \* another error, or the request aborted by the cancelled ctx
          /\ \E err \in (IF eCtxDone THEN {ContextCanceled} ELSE {OtherError}) :
               /\ ExportFail(WrapFetchError("thread", err))
               /\ eFailure' = err
          /\ eCursor' = CursorAfterError(eCursor)
          /\ UNCHANGED <<eReqCursor, eLastNext, eLastMore, eAttempt, ePages, eRequests,
                         ePage, threadVars, eRateLimits>>
    /\ UNCHANGED <<remoteVars, eCtxDone, historyVars, eStats, lookupVars>>
    /\ UNCHANGED nonExportVars

\* one iteration of "for _, reply := range replies"
ExportThreadMsg ==
    /\ ePc = "tMsgs"
    /\ ePage # <<>>
    /\ LET reply == Head(ePage) IN
       IF reply.ts = CurrentParent.ts
       THEN UNCHANGED <<eStats, lookupVars, eThreadFiles>>
       ELSE \E outcome \in LookupOutcomes(reply.user) :
              /\ LookupEffects(reply.user, outcome)
              /\ eStats' =
                   countMessage(
                       addReactions(trackUser(eStats, reply.user), reply.reactions))
              /\ eThreadFiles' =
                   [eThreadFiles EXCEPT ![Len(eThreadFiles)].lines =
                       Append(@, MarshalExportMessage(buildExportMessage(
                           reply, CurrentParent.ts, getUserName(reply.user, outcome))))]
    /\ ePage' = Tail(ePage)
    /\ UNCHANGED <<remoteVars, ePc, eCtxDone, eCursor, eReqCursor, eLastNext, eLastMore,
                   eAttempt, ePages, eRequests, historyVars, eThreadIdx, eReplies,
                   eThreadRefs, eTmp, eMain, eRateLimits, eWaitOf, eRet, eOut>>
    /\ UNCHANGED eFailure
    /\ UNCHANGED nonExportVars

\* the page is processed: break out of the loop, the file is flushed and its
\* FileRef returned and appended to threadFiles; or go on with the next page
ExportThreadPageEnd ==
    /\ ePc = "tMsgs"
    /\ ePage = <<>>
    /\ IF MorePages(eLastMore, eCursor)
       THEN /\ ePc' = "tLoop"
            /\ UNCHANGED <<eThreadFiles, eThreadRefs>>
       ELSE /\ ePc' = "tNext"
            /\ eThreadFiles' = [eThreadFiles EXCEPT ![Len(eThreadFiles)].complete = TRUE]
            /\ eThreadRefs' = Append(eThreadRefs,
                  [name |-> eThreadFiles[Len(eThreadFiles)].name,
                   lines |-> Len(eThreadFiles[Len(eThreadFiles)].lines)])
    /\ UNCHANGED <<remoteVars, eCtxDone, fetchVars, historyVars, eThreadIdx, eReplies,
                   eTmp, eMain, eStats, lookupVars, eRateLimits, eWaitOf, eRet, eOut>>
    /\ UNCHANGED eFailure
    /\ UNCHANGED nonExportVars

\* the rest of exportChannelTwoPass and of ExportChannel: the empty final file or
\* reverseCopyLines from the scratch file, the deferred os.Remove, the output
ExportReverse ==
    /\ ePc = "reverse"
    /\ LET final == IF Len(eOffsets) = 0 THEN <<>>
                    ELSE reverseCopyLines(eTmp.bytes, eOffsets)
       IN /\ eMain' = IF Len(eOffsets) = 0 THEN EmptyFile
                       ELSE [exists |-> TRUE, bytes |-> final]
          /\ eOut' = [lines |-> Len(eOffsets), bytes |-> Len(final),
                      threadFiles |-> eThreadRefs, stats |-> eStats]
    /\ eTmp' = NoFile
    /\ eRet' = Nil
    /\ ePc' = "done"
    /\ UNCHANGED <<remoteVars, eCtxDone, fetchVars, historyVars, threadVars, eStats,
                   lookupVars, eRateLimits, eWaitOf>>
    /\ UNCHANGED eFailure
    /\ UNCHANGED nonExportVars

\* a file operation of the step the export is at, and what its failure leaves:
\* err is the error returned, main the main output file, newThread says that
\* the thread file had been created when its first write failed
FileOp(texts, main, newThread) ==
    [err |-> [IOError EXCEPT !.wrap = texts], main |-> main, newThread |-> newThread]

FileOpsNow ==
    CASE ePc = "start" ->
           {FileOp(<<"failed to create temp file">>, eMain, FALSE)}
      [] ePc = "hMsgs" /\ ePage # <<>> ->
           {FileOp(<<>>, eMain, FALSE)}
      [] ePc = "hMsgs" /\ ePage = <<>> /\ ~MorePages(eLastMore, eLastNext) ->
           {FileOp(<<"failed to flush temp file">>, eMain, FALSE)}
      [] ePc = "tNext" /\ eThreadIdx < Len(eThreads) ->
           {FileOp(<<"failed to write thread file", "failed to create file">>, eMain, FALSE),
            FileOp(<<"failed to write thread file">>, eMain, TRUE)}
      [] ePc = "tMsgs" /\ ePage # <<>> /\ Head(ePage).ts # CurrentParent.ts ->
           {FileOp(<<"failed to write thread file">>, eMain, FALSE)}
      [] ePc = "tMsgs" /\ ePage = <<>> /\ ~MorePages(eLastMore, eCursor) ->
           {FileOp(<<"failed to write thread file", "failed to flush buffer">>, eMain, FALSE),
            FileOp(<<"failed to write thread file", "failed to stat file">>, eMain, FALSE)}
      [] ePc = "reverse" /\ Len(eOffsets) = 0 ->
           {FileOp(<<"failed to create empty file">>, NoFile, FALSE)}
      [] ePc = "reverse" /\ Len(eOffsets) > 0 ->
           {FileOp(<<"failed to create final file">>, NoFile, FALSE),
            FileOp(<<"failed to reopen temp file">>, EmptyFile, FALSE),
            FileOp(<<"failed to read line">>, EmptyFile, FALSE),
            FileOp(<<"failed to flush">>, EmptyFile, FALSE),
            FileOp(<<"failed to stat final file">>,
                   [exists |-> TRUE, bytes |-> reverseCopyLines(eTmp.bytes, eOffsets)],
                   FALSE)}
      [] OTHER -> {}

\* a file operation fails: the function it is in returns the error, every
\* caller up to ExportChannel returns it, the deferred cleanups run
ExportIOFail ==
    /\ \E op \in FileOpsNow :
         /\ ExportReturnError(op.err, op.main)
         /\ eThreadFiles' =
              IF op.newThread
              THEN Append(eThreadFiles,
                          [name |-> TsRaw(eThreads[eThreadIdx + 1].ts), lines |-> <<>>,
                           complete |-> FALSE])
              ELSE eThreadFiles
    /\ eFailure' = IOError
    /\ UNCHANGED <<remoteVars, eCtxDone, fetchVars, historyVars, eThreadIdx, eReplies,
                   eThreadRefs, eStats, lookupVars, eRateLimits>>
    /\ UNCHANGED nonExportVars

ExportNext ==
    \/ ExportIOFail
    \/ ExportStart
    \/ ExportCancel
    \/ ExportHistLoop
    \/ ExportHistResponse
    \/ ExportHistMsg
    \/ ExportHistPageEnd
    \/ ExportWaitOver
    \/ ExportThreadNext
    \/ ExportThreadLoop
    \/ ExportThreadResponse
    \/ ExportThreadMsg
    \/ ExportThreadPageEnd
    \/ ExportReverse

(***************************************************************************)
(* Claims about the export.                                                *)
(***************************************************************************)
\* the lines of a file in which every line ends with '\n'
RECURSIVE SplitLines(_)
SplitLines(bytes) ==
    IF bytes = <<>> THEN <<>>
    ELSE LET line == ScanLine(bytes, 1) IN
         <<line>> \o SplitLines(SubSeq(bytes, Len(line) + 2, Len(bytes)))

Count(seq, x) == Cardinality({i \in DOMAIN seq : seq[i] = x})

\* the serialised records a top-level message can have: with its author's name,
\* or without it when the name was not resolved
RecordsOf(msg) ==
    {MarshalExportMessage(buildExportMessage(msg, NoTs, name)) :
        name \in {"", IF msg.user = "" THEN "" ELSE RemoteUserName(msg.user)}}

ExportSucceeded == ePc = "done" /\ eRet = Nil

\* C1: after a successful export of the messages m1..mn that list-history
\* delivered (newest first, over any pages), line i of the main file is the
\* serialised record of message n+1-i, and the file has no other line.
C1_MainFileOldestFirst ==
    ExportSucceeded =>
        LET lines == SplitLines(eMain.bytes)
            n == Len(eDelivered)
        IN /\ Len(lines) = n
           /\ Len(eRecords) = n
           /\ \A i \in 1..n :
                /\ lines[i] = eRecords[n + 1 - i]
                /\ lines[i] \in RecordsOf(eDelivered[n + 1 - i])

C1_Witness ==
    /\ ExportSucceeded
    /\ eDelivered = <<M1, M2, M3>>
    /\ ePageLen = 2
    /\ SplitLines(eMain.bytes)[1] \in RecordsOf(M3)
    /\ SplitLines(eMain.bytes)[3] \in RecordsOf(M1)

\* C2: after a successful export in which list-history returned N messages in
\* total, the main file has exactly N lines, FileRef.Lines is N, and every
\* record is a line of the file as often as it was written: none is dropped or
\* duplicated.
C2_MainFileLineCount ==
    ExportSucceeded =>
        LET lines == SplitLines(eMain.bytes) IN
          /\ Len(lines) = Len(eDelivered)
          /\ eOut.lines = Len(eDelivered)
          /\ \A i \in DOMAIN eRecords :
               Count(lines, eRecords[i]) = Count(eRecords, eRecords[i])

C2_Witness ==
    /\ ExportSucceeded
    /\ Len(eDelivered) = 3
    /\ ePageLen = 1
    /\ eOut.lines = 3
    /\ Len(SplitLines(eMain.bytes)) = 3

\* the serialised records a reply can have in the thread file of its parent
ReplyRecordsOf(reply, parent) ==
    {MarshalExportMessage(buildExportMessage(reply, parent.ts, name)) :
        name \in {"", IF reply.user = "" THEN "" ELSE RemoteUserName(reply.user)}}

\* lines is the parent followed by these replies, one line each, in this order
IsThreadOf(lines, parent, replies) ==
    /\ Len(lines) = 1 + Len(replies)
    /\ lines[1] \in RecordsOf(parent)
    /\ \A i \in DOMAIN replies : lines[i + 1] \in ReplyRecordsOf(replies[i], parent)

\* the thread fetch that has just ended was served the listing up to its end
ThreadJustWritten == ePc = "tNext" /\ eThreadIdx > 0
ServedToEnd ==
    PosOf(eReqCursor) + ePageLen >= Len(ThreadListing(CurrentParent))

\* C11: a thread file that has been written holds the parent and then every
\* reply of the thread once, in the remote's order (3 lines for a parent with 2
\* replies); after a successful export there is one thread file per top-level
\* message with replies, and that message is exactly one line of the main file.
C11_ThreadFileParentThenReplies ==
    /\ (ThreadJustWritten /\ ServedToEnd) =>
          /\ IsThreadOf(eThreadFiles[eThreadIdx].lines, CurrentParent,
                        Replies(CurrentParent))
          /\ Len(eThreadFiles[eThreadIdx].lines) = 1 + CurrentParent.replyCount
    /\ ExportSucceeded =>
          /\ eThreads = SelectSeq(eDelivered, LAMBDA m : m.replyCount > 0)
          /\ Len(eThreadFiles) = Len(eThreads)
          /\ \A i \in DOMAIN eThreads :
               /\ eThreadFiles[i].name = TsRaw(eThreads[i].ts)
               /\ Cardinality({j \in DOMAIN eDelivered : eDelivered[j] = eThreads[i]}) = 1
               /\ \E r \in RecordsOf(eThreads[i]) :
                    Count(SplitLines(eMain.bytes), r) = 1

\* C12: whenever ExportChannel has returned, with success or with the error of
\* a remote call, of a file operation or of the cancelled context, in the history
\* pass, the thread pass or the final copy, the scratch file does not exist.
C12_ScratchFileRemoved ==
    (ePc = "done") => ~eTmp.exists

C12_Witness ==
    /\ ePc = "done"
    /\ eFailure = IOError
    /\ eRet.wrap = <<"failed to write thread file">>
    /\ Len(eOffsets) = 2
    /\ eThreadIdx = 1
    /\ ~eTmp.exists

NameOwed(msg) ==
    IF msg.user # "" /\ msg.user \in eUserNames' THEN RemoteUserName(msg.user) ELSE ""

C30_EmptyHistoryGivesEmptyFile ==
    (ePc = "done" /\ eHistory = <<>> /\ eFailure = Nil) =>
        /\ eRet = Nil
        /\ eMain.exists
        /\ eMain.bytes = <<>>
        /\ eOut.lines = 0
        /\ eOut.bytes = 0

C30_Witness ==
    /\ ExportSucceeded
    /\ eHistory = <<>>
    /\ eRequests = 1
    /\ eMain.exists
    /\ eOut.lines = 0
    /\ eOut.threadFiles = <<>>

\* the lines of these thread files that are not the file's first, the parent
RECURSIVE ReplyLines(_)
ReplyLines(files) ==
    IF files = <<>> THEN 0
    ELSE (Len(files[1].lines) - 1) + ReplyLines(Tail(files))

RECURSIVE ReactionsOf(_)
ReactionsOf(msgs) ==
    IF msgs = <<>> THEN 0
    ELSE SumCounts(msgs[1].reactions)
         + (IF msgs[1].replyCount > 0 THEN ReactionsOf(Replies(msgs[1])) ELSE 0)
         + ReactionsOf(Tail(msgs))

\* C17: after a successful export the reaction count of the result is the sum
\* of the reaction counts of the exported messages, the top-level messages
\* and the replies of their threads, each message, a thread's parent too,
\* contributing once.
C17_ReactionCountOncePerMessage ==
    ExportSucceeded => eOut.stats.reactionCount = ReactionsOf(eDelivered)

\* C9: within one paginated fetch, the cursor of every page request, a request
\* re-issued after a rate-limit wait included, is the next-cursor of the last
\* successful page before it (empty when there was none).
C9_RequestCarriesLastNextCursor ==
    (ePc \in {"hCall", "tCall"}) => eReqCursor = eLastNext

\* C10: a fetch that goes on after a page had has-more true and a non-empty
\* next cursor in that page, and a fetch that has stopped had has-more false or
\* an empty next cursor in its last page.
C10_FurtherPageIffMore ==
    /\ (ePc \in {"hLoop", "hCall", "tLoop", "tCall", "wait"} /\ ePages > 0)
          => (eLastMore /\ eLastNext # NoCursor)
    /\ (ePc = "tNext")
          => (ePages > 0 /\ ~(eLastMore /\ eLastNext # NoCursor))

C10_Witness ==
    /\ ePc = "tNext"
    /\ eThreadIdx = 1
    /\ ePages = 2
    /\ eLastMore
    /\ eLastNext = NoCursor

(***************************************************************************)
(* Strings.  A string is the sequence of its characters.                   *)
(***************************************************************************)
UpperLetters ==
    <<"A", "B", "C", "D", "E", "F", "G", "H", "I", "J", "K", "L", "M",
      "N", "O", "P", "Q", "R", "S", "T", "U", "V", "W", "X", "Y", "Z">>
LowerLetters ==
    <<"a", "b", "c", "d", "e", "f", "g", "h", "i", "j", "k", "l", "m",
      "n", "o", "p", "q", "r", "s", "t", "u", "v", "w", "x", "y", "z">>
Digits == {"0", "1", "2", "3", "4", "5", "6", "7", "8", "9"}

IsUpper(c) == \E i \in DOMAIN UpperLetters : UpperLetters[i] = c
LowerChar(c) ==
    IF IsUpper(c)
    THEN LowerLetters[CHOOSE i \in DOMAIN UpperLetters : UpperLetters[i] = c]
    ELSE c

\* strings.ToLower
ToLowerIdentity(s) == s
ToLower(s) == [i \in DOMAIN s |-> LowerChar(s[i])]

\* strings.TrimPrefix
TrimPrefixKeep(s, prefix) == s
TrimPrefix(s, prefix) ==
    IF Len(s) >= Len(prefix) /\ SubSeq(s, 1, Len(prefix)) = prefix
    THEN SubSeq(s, Len(prefix) + 1, Len(s))
    ELSE s

(***************************************************************************)
(* Channels.                                                               *)
(***************************************************************************)
Channel(id, nameNormalized) == [id |-> id, nameNormalized |-> nameNormalized]

ChannelID(prefix, n) == <<prefix, "0", "0", "0", "0", "0", "0", "0", n>>

ChGen == Channel(ChannelID("C", "1"), <<"g", "e", "n">>)
ChGenAgain == Channel(ChannelID("C", "2"), <<"g", "e", "n">>)  \* the name of ChGen
ChDev == Channel(ChannelID("C", "3"), <<"D", "e", "v">>)       \* a name with a capital
ChDirect == Channel(ChannelID("D", "4"), <<>>)                 \* a direct message: no name
ChNoID == Channel(<<>>, <<"o", "p", "s">>)                     \* no ID

\* the slices Add is called with
AddedPages == {<<ChGen, ChDev>>, <<ChGenAgain>>, <<ChDirect, ChNoID>>}

\* the goroutines that call GetChannelID
Callers == {"c1", "c2"}

\* the arguments GetChannelID is called with: each goroutine has its own
CallerNames(c) ==
    IF c = "c1"
    THEN {<<"g", "e", "n">>, <<"#", "g", "e", "n">>, <<"o", "p", "s">>,
          ChannelID("C", "1")}
    ELSE {<<"G", "E", "N">>, <<"d", "e", "v">>, <<"#">>, ChannelID("C", "9")}

QueryNames == UNION {CallerNames(c) : c \in Callers}

(***************************************************************************)
(* channelIndex.                                                           *)
(***************************************************************************)
\* m[k] = v
MapPutIfAbsent(m, k, v) == [x \in DOMAIN m \cup {k} |-> IF x \in DOMAIN m THEN m[x] ELSE v]
MapPut(m, k, v) == [x \in DOMAIN m \cup {k} |-> IF x = k THEN v ELSE m[x]]

newIndex == [names |-> <<>>, ids |-> <<>>]

\* channelIndex.Add, under the write lock
RECURSIVE Add(_, _)
AddNothing(ix, channels) == ix
AddForgetting(ix, channels) ==
    IF channels = <<>> \/ Head(channels).nameNormalized = <<>> \/ Head(channels).id = <<>>
    THEN ix
    ELSE [names |-> MapPut(<<>>, ToLower(Head(channels).nameNormalized), Head(channels)),
          ids |-> MapPut(<<>>, ToLower(Head(channels).id), Head(channels))]
Add(ix, channels) ==
    IF channels = <<>> THEN ix
    ELSE LET ch == Head(channels)
             next == IF ch.nameNormalized # <<>> /\ ch.id # <<>>
                     THEN [names |-> MapPut(ix.names, ToLower(ch.nameNormalized), ch),
                           ids |-> MapPut(ix.ids, ToLower(ch.id), ch)]
                     ELSE ix
         IN Add(next, Tail(channels))

\* channelIndex.GetByName, under the read lock: [ch, ok]
GetByName(ix, name) ==
    IF ToLower(name) \in DOMAIN ix.names
    THEN [ch |-> ix.names[ToLower(name)], ok |-> TRUE]
    ELSE [ch |-> Channel(<<>>, <<>>), ok |-> FALSE]

\* channelIndex.GetByID, under the read lock: [ch, ok]
GetByID(ix, id) ==
    IF ToLower(id) \in DOMAIN ix.ids
    THEN [ch |-> ix.ids[ToLower(id)], ok |-> TRUE]
    ELSE [ch |-> Channel(<<>>, <<>>), ok |-> FALSE]

\* channelIndex.Size, under the read lock
Size(ix) == Cardinality(DOMAIN ix.ids)

\* newIndex(channels) of channel_index.go, the index NewClient builds from what
\* fetchAllChannels returned: every channel is stored, under its normalized
\* name as it is and under its lowercased ID
RECURSIVE newIndexOf(_)
newIndexOf(channels) ==
    IF channels = <<>> THEN newIndex
    ELSE LET ix == newIndexOf(SubSeq(channels, 1, Len(channels) - 1))
             ch == channels[Len(channels)]
         IN [names |-> MapPut(ix.names, ch.nameNormalized, ch),
             ids |-> MapPut(ix.ids, ToLower(ch.id), ch)]

MinChannelIDLen == 9

\* len(s): the bytes of s; of the characters of the model only "é" takes two
RECURSIVE ByteLen(_)
ByteLen(s) ==
    IF s = <<>> THEN 0
    ELSE (IF s[1] = "é" THEN 2 ELSE 1) + ByteLen(Tail(s))

isChannelIDAnyFirst(s) ==
    /\ ByteLen(s) >= MinChannelIDLen
    /\ \A i \in DOMAIN s : IsUpper(s[i]) \/ s[i] \in Digits

isChannelIDNever(s) == FALSE

isChannelID(s) ==
    /\ ByteLen(s) >= MinChannelIDLen
    /\ s[1] \in {"C", "D", "G"}
    /\ \A i \in DOMAIN s : IsUpper(s[i]) \/ s[i] \in Digits

(***************************************************************************)
(* isChannelID on its own: one call with a string of ShapeInputs.          *)
(***************************************************************************)
MaxIDLen == 10

ShapeLens == {0, 5} \cup ((MinChannelIDLen - 1)..MaxIDLen)
ShapeFirst == {"C", "D", "G", "X", "c", "0"}
ShapeOdd == {"A", "9", "a", "-", "é", "#"}

\* first, then digits, with odd at position pos
Fill(first, odd, pos, len) ==
    [i \in 1..len |-> IF i = 1 THEN first ELSE IF i = pos THEN odd ELSE "1"]

ShapeInputs ==
    {Fill(first, odd, pos, len) :
        first \in ShapeFirst, odd \in ShapeOdd, pos \in {2, 9}, len \in ShapeLens}
    \cup {<<"g", "e", "n", "e", "r", "a", "l">>,
          <<"#", "g", "e", "n", "e", "r", "a", "l">>}

ShapeInit == sInput \in ShapeInputs /\ sPc = "call" /\ sGot = FALSE
ShapeIdle == sInput = <<>> /\ sPc = "unused" /\ sGot = FALSE

ShapeCall ==
    /\ sPc = "call"
    /\ sPc' = "done"
    /\ sGot' = isChannelID(sInput)
    /\ UNCHANGED sInput
    /\ UNCHANGED nonShapeVars

ShapeNext == ShapeCall

\* the shape of a channel ID, spelled out
ShapeLetters ==
    {"A", "B", "C", "D", "E", "F", "G", "H", "I", "J", "K", "L", "M",
     "N", "O", "P", "Q", "R", "S", "T", "U", "V", "W", "X", "Y", "Z"}
ShapeDigits == {"0", "1", "2", "3", "4", "5", "6", "7", "8", "9"}
IDShaped(s) ==
    /\ Len(s) >= 9
    /\ s[1] = "C" \/ s[1] = "D" \/ s[1] = "G"
    /\ \A i \in 1..Len(s) : s[i] \in ShapeLetters \/ s[i] \in ShapeDigits

\* C19: isChannelID(s) is true exactly when s has at least 9 characters, its
\* first is C, D or G, and every one of them is an uppercase letter A-Z or a
\* digit 0-9.
C19_ShapeIffLongCDGUpperAlnum ==
    sPc = "done" => (sGot <=> IDShaped(sInput))

C19_Witness ==
    /\ sPc = "done"
    /\ sInput = Fill("G", "A", 9, 9)
    /\ sGot

\* the error of findChannelID: it names the name looked up and the index size
NotFoundError(name, entries) ==
    [kind |-> "not_found", retryAfter |-> 0, wrap |-> <<>>,
     name |-> name, entries |-> entries]

NoAnswer == [id |-> <<>>, err |-> Pending]

DirZero ==
    /\ dIndex = newIndex
    /\ dAdded = <<>>
    /\ dAdds = 0
    /\ dLock = "free"
    /\ dPending = <<>>
    /\ dBounds = {0}
    /\ dQuery = [c \in Callers |-> <<>>]
    /\ dName = [c \in Callers |-> <<>>]
    /\ dSeen = [c \in Callers |-> <<>>]
    /\ dLooked = [c \in Callers |-> FALSE]
    /\ dAnswer = [c \in Callers |-> NoAnswer]

DirInit == DirZero /\ dPc = [c \in Callers |-> "idle"]
DirIdle == DirZero /\ dPc = [c \in Callers |-> "unused"]

callerVars == <<dPc, dQuery, dName, dSeen, dLooked, dAnswer>>

\* the index after GetByName or Size: both read the maps and write nothing
indexAfterReadCleared(ix) == newIndex
indexAfterRead(ix) == ix

\* ix.mu.RLock() succeeds while no writer holds the mutex
RLockFreeAlways(lock) == TRUE
RLockFree(lock) == lock = "free"

\* some caller feeds a slice of channels to the index: ix.mu.Lock()
DirAddLock ==
    /\ dLock = "free"
    /\ dAdds < MaxAdds
    /\ \E channels \in AddedPages : dPending' = channels
    /\ dLock' = "write"
    /\ dAdds' = dAdds + 1
    /\ UNCHANGED <<dIndex, dAdded, dBounds, callerVars>>
    /\ UNCHANGED nonDirVars

\* one iteration of Add's loop over the slice
DirAdd ==
    /\ dLock = "write"
    /\ dPending # <<>>
    /\ dIndex' = Add(dIndex, <<Head(dPending)>>)
    /\ dAdded' = Append(dAdded, Head(dPending))
    /\ dPending' = Tail(dPending)
    /\ UNCHANGED <<dAdds, dLock, dBounds, callerVars>>
    /\ UNCHANGED nonDirVars

\* the loop is over: the deferred ix.mu.Unlock()
DirAddUnlock ==
    /\ dLock = "write"
    /\ dPending = <<>>
    /\ dLock' = "free"
    /\ dBounds' = dBounds \cup {Len(dAdded)}
    /\ UNCHANGED <<dIndex, dAdded, dAdds, dPending, callerVars>>
    /\ UNCHANGED nonDirVars

\* GetChannelID up to findChannelID's GetByName, which holds the read lock
DirGetChannelID ==
    \E c \in Callers : \E channelOrName \in CallerNames(c) :
      /\ dPc[c] = "idle"
      /\ dQuery' = [dQuery EXCEPT ![c] = channelOrName]
      /\ IF isChannelID(channelOrName)
         THEN /\ dAnswer' = [dAnswer EXCEPT ![c] = [id |-> channelOrName, err |-> Nil]]
              /\ dLooked' = [dLooked EXCEPT ![c] = FALSE]
              /\ UNCHANGED <<dPc, dName, dSeen>>
         ELSE LET name == TrimPrefix(channelOrName, <<"#">>)
                  found == GetByName(dIndex, name)
              IN /\ RLockFree(dLock)
                 /\ dName' = [dName EXCEPT ![c] = name]
                 /\ dSeen' = [dSeen EXCEPT ![c] = dAdded]
                 /\ dLooked' = [dLooked EXCEPT ![c] = TRUE]
                 /\ IF found.ok
                    THEN /\ dAnswer' = [dAnswer EXCEPT ![c] =
                                           [id |-> found.ch.id, err |-> Nil]]
                         /\ UNCHANGED dPc
                    ELSE /\ dAnswer' = [dAnswer EXCEPT ![c] = NoAnswer]
                         /\ dPc' = [dPc EXCEPT ![c] = "size"]
      /\ dIndex' = IF isChannelID(channelOrName) THEN dIndex ELSE indexAfterRead(dIndex)
      /\ UNCHANGED <<dAdded, dAdds, dLock, dPending, dBounds>>
      /\ UNCHANGED nonDirVars

\* findChannelID after a miss: it reads Size, under the read lock, for the
\* error it returns
DirNotFound ==
    \E c \in Callers :
      /\ dPc[c] = "size"
      /\ RLockFree(dLock)
      /\ dAnswer' = [dAnswer EXCEPT ![c] =
                        [id |-> <<>>, err |-> NotFoundError(dName[c], Size(dIndex))]]
      /\ dPc' = [dPc EXCEPT ![c] = "idle"]
      /\ dIndex' = indexAfterRead(dIndex)
      /\ UNCHANGED <<dAdded, dAdds, dLock, dPending, dBounds, dQuery, dName,
                     dSeen, dLooked>>
      /\ UNCHANGED nonDirVars

DirNext == DirAddLock \/ DirAdd \/ DirAddUnlock \/ DirGetChannelID \/ DirNotFound

(***************************************************************************)
(* Claims about the directory.                                             *)
(***************************************************************************)
Answered(c) == dPc[c] = "idle" /\ dAnswer[c] # NoAnswer
ByIndex(c) == Answered(c) /\ ~isChannelID(dQuery[c])

\* two names are the same up to letter case
SameFolded(a, b) ==
    /\ Len(a) = Len(b)
    /\ \A i \in DOMAIN a : LowerChar(a[i]) = LowerChar(b[i])

\* the channels that have a name and an ID and whose name is this one up to
\* letter case, by their position in seen
StoredAs(seen, name) ==
    {i \in DOMAIN seen :
        /\ seen[i].nameNormalized # <<>>
        /\ seen[i].id # <<>>
        /\ SameFolded(seen[i].nameNormalized, name)}

Last(S) == CHOOSE i \in S : \A j \in S : j <= i

IsResolutionOf(answer, seen, query) ==
    LET stored == StoredAs(seen, TrimPrefix(query, <<"#">>)) IN
      IF stored # {}
      THEN answer.err = Nil /\ answer.id = seen[Last(stored)].id
      ELSE answer.err.kind = "not_found" /\ answer.id = <<>>

C14_NoTornRead ==
    /\ \A c \in Callers : Len(dSeen[c]) \in dBounds
    /\ \A c \in Callers :
         (ByIndex(c) /\ dAnswer[c].err = Nil) =>
            \E i \in DOMAIN dSeen[c] :
               /\ dSeen[c][i].id = dAnswer[c].id
               /\ SameFolded(dSeen[c][i].nameNormalized,
                             TrimPrefix(dQuery[c], <<"#">>))

C14_Witness ==
    /\ dLock = "write"
    /\ dAdded = <<ChGen, ChDev, ChGen>>
    /\ dPending = <<ChDev>>
    /\ ByIndex("c1") /\ ByIndex("c2")
    /\ dSeen["c1"] = <<ChGen, ChDev>>
    /\ dSeen["c2"] = <<ChGen, ChDev>>
    /\ dQuery["c1"] = <<"g", "e", "n">>
    /\ dQuery["c2"] = <<"d", "e", "v">>
    /\ dAnswer["c1"].id = ChGen.id
    /\ dAnswer["c2"].id = ChDev.id

Unhashed(s) == IF s # <<>> /\ s[1] = "#" THEN Tail(s) ELSE s

LookupNow(ix, name) ==
    LET found == GetByName(ix, TrimPrefix(name, <<"#">>)) IN
      IF found.ok THEN [id |-> found.ch.id, ok |-> TRUE] ELSE [id |-> <<>>, ok |-> FALSE]

\* C33 as stated: once a response has been fed to the directory, every channel
\* of the response resolves by name to its ID.
C33_EveryChannelOfResponseResolves ==
    (dLock = "free") =>
        \A i \in DOMAIN dAdded :
            LookupNow(dIndex, dAdded[i].nameNormalized) = [id |-> dAdded[i].id, ok |-> TRUE]

\* C33: once a response has been fed to the directory, every channel of the
\* response that has an ID and a name, and is the last channel handed over
\* under that name up to letter case, resolves by name to its ID from the
\* index alone; a channel without ID or without name is not stored.
C33_LastNamedChannelResolves ==
    \A i \in DOMAIN dAdded :
        IF dAdded[i].nameNormalized # <<>> /\ dAdded[i].id # <<>>
        THEN (i = Last(StoredAs(dAdded, dAdded[i].nameNormalized))) =>
                LookupNow(dIndex, dAdded[i].nameNormalized)
                    = [id |-> dAdded[i].id, ok |-> TRUE]
        ELSE \A n \in DOMAIN dIndex.names : dIndex.names[n] # dAdded[i]

C33_Witness ==
    /\ dLock = "free"
    /\ dAdded = <<ChDirect, ChNoID, ChGen, ChDev>>
    /\ LookupNow(dIndex, ChDev.nameNormalized) = [id |-> ChDev.id, ok |-> TRUE]
    /\ ~LookupNow(dIndex, ChNoID.nameNormalized).ok
    /\ Size(dIndex) = 2

\* C34: nothing is ever removed from the index: a name that resolves keeps
\* resolving, an ID that is found stays found, and Size() never decreases.
C34_EntriesNeverDeleted ==
    [][dIndex' # dIndex =>
         /\ \A n \in DOMAIN dIndex.names : n \in DOMAIN dIndex'.names
         /\ \A id \in DOMAIN dIndex.ids : GetByID(dIndex', id).ok
         /\ \A name \in QueryNames :
               LookupNow(dIndex, name).ok => LookupNow(dIndex', name).ok
         /\ Size(dIndex') >= Size(dIndex)]_vars

C34_Witness ==
    /\ dAdded = <<ChGen, ChDev, ChGenAgain>>
    /\ Cardinality(DOMAIN dIndex.ids) = 3
    /\ dAnswer["c1"] = [id |-> ChGen.id, err |-> Nil]
    /\ dSeen["c1"] = <<ChGen, ChDev>>
    /\ LookupNow(dIndex, dQuery["c1"]) = [id |-> ChGenAgain.id, ok |-> TRUE]

\* C23: after any sequence of inserts the index holds every channel ID once,
\* no two entries of the ID map are for the same ID, and every name of the
\* name map maps to one channel: the channel most recently inserted, with an
\* ID, under that name.
C23_IDsOnceNamesLastWins ==
    /\ \A j, k \in DOMAIN dIndex.ids :
         dIndex.ids[j].id = dIndex.ids[k].id => j = k
    /\ \A n \in DOMAIN dIndex.names :
         /\ StoredAs(dAdded, n) # {}
         /\ dIndex.names[n] = dAdded[Last(StoredAs(dAdded, n))]

C23_Witness ==
    /\ dAdded = <<ChGen, ChDev, ChGenAgain>>
    /\ dIndex.names[<<"g", "e", "n">>] = ChGenAgain
    /\ Cardinality(DOMAIN dIndex.ids) = 3
    /\ Cardinality(DOMAIN dIndex.names) = 2

\* C24: the index is consistent both ways: the channel a name maps to is the
\* channel its ID maps to, under that name, and the name of the channel an ID
\* maps to resolves to that ID.
C24_TwoWayConsistent ==
    /\ \A n \in DOMAIN dIndex.names :
         LET byID == GetByID(dIndex, dIndex.names[n].id) IN
           byID.ok /\ SameFolded(byID.ch.nameNormalized, n)
    /\ \A k \in DOMAIN dIndex.ids :
         LET byName == GetByName(dIndex, dIndex.ids[k].nameNormalized) IN
           byName.ok /\ byName.ch.id = dIndex.ids[k].id

Calls == {"a", "b"}
PairChannels == {ChannelID("C", "1"), ChannelID("C", "2")}

\* what the remote holds for every channel: two top-level messages, the
\* first the parent of two replies
PairHistoryLines == <<"m2", "m1">>
PairThreadLines == <<"m1", "r1", "r2">>
PairParentTs == "101.000"

\* os.CreateTemp gives every call a name no file has
ScratchPath(call) == <<"export-tmp", call>>
ThreadPath(channelID) == <<"export", channelID, "thread", PairParentTs>>
MainPath(channelID, nano) == <<"export", channelID, nano>>

MapDel(m, k) == [x \in DOMAIN m \ {k} |-> m[x]]

\* a write of lines at offset 0 of a file that holds old
Overlay(old, lines) ==
    lines \o (IF Len(old) > Len(lines) THEN SubSeq(old, Len(lines) + 1, Len(old))
              ELSE <<>>)

NoRef == [path |-> <<>>, lines |-> 0]
NoCall ==
    [pc |-> "idle", channel |-> <<>>, created |-> {}, messageCount |-> 0,
     userNames |-> {}, threadRef |-> NoRef, mainRef |-> NoRef, ret |-> Pending]

PairZero == pDisk = <<>> /\ pClock = 1
PairInit == PairZero /\ pCall = [k \in Calls |-> NoCall]
PairIdle == PairZero /\ pCall = [k \in Calls |-> [NoCall EXCEPT !.pc = "unused"]]

\* ExportChannel: the channel ID, a new exportStats, a new name cache
PairStart ==
    \E k \in Calls, channelID \in PairChannels :
      /\ pCall[k].pc = "idle"
      /\ pCall' = [pCall EXCEPT ![k] = [NoCall EXCEPT !.pc = "temp", !.channel = channelID]]
      /\ UNCHANGED <<pDisk, pClock>>
      /\ UNCHANGED nonPairVars

\* writeHistoryToTempFile: os.CreateTemp
PairCreateTemp ==
    \E k \in Calls :
      /\ pCall[k].pc = "temp"
      /\ pDisk' = MapPut(pDisk, ScratchPath(k), <<>>)
      /\ pCall' = [pCall EXCEPT ![k].pc = "history",
                                ![k].created = @ \cup {ScratchPath(k)}]
      /\ UNCHANGED pClock
      /\ UNCHANGED nonPairVars

\* writeHistoryToTempFile: the messages go to the scratch file, newest first
PairHistory ==
    \E k \in Calls :
      /\ pCall[k].pc = "history"
      /\ pDisk' = MapPut(pDisk, ScratchPath(k), PairHistoryLines)
      /\ pCall' = [pCall EXCEPT ![k].pc = "thread",
                                ![k].messageCount = @ + Len(PairHistoryLines),
                                ![k].userNames = @ \cup {"U1"}]
      /\ UNCHANGED pClock
      /\ UNCHANGED nonPairVars

\* writeThreadFile, writeJSONLinesFile: os.Create makes the file or empties it
PairThreadCreate ==
    \E k \in Calls :
      /\ pCall[k].pc = "thread"
      /\ pDisk' = MapPut(pDisk, ThreadPath(pCall[k].channel), <<>>)
      /\ pCall' = [pCall EXCEPT ![k].pc = "replies",
                                ![k].created = @ \cup {ThreadPath(pCall[k].channel)}]
      /\ UNCHANGED pClock
      /\ UNCHANGED nonPairVars

\* writeJSONLinesFile: the buffered lines reach the file at Flush
PairThreadFlush ==
    \E k \in Calls :
      LET path == ThreadPath(pCall[k].channel) IN
        /\ pCall[k].pc = "replies"
        /\ pDisk' = MapPut(pDisk, path, Overlay(pDisk[path], PairThreadLines))
        /\ pCall' = [pCall EXCEPT ![k].pc = "main",
                                  ![k].messageCount = @ + Len(PairThreadLines) - 1,
                                  ![k].userNames = @ \cup {"U2"},
                                  ![k].threadRef =
                                      [path |-> path, lines |-> Len(PairThreadLines)]]
        /\ UNCHANGED pClock
        /\ UNCHANGED nonPairVars

\* exportChannelTwoPass: the main file, named by the clock, and the return,
\* on which the scratch file is removed
PairMain ==
    \E k \in Calls, nano \in {pClock, pClock + 1} :
      LET path == MainPath(pCall[k].channel, nano) IN
        /\ pCall[k].pc = "main"
        /\ pClock' = nano
        /\ pDisk' = MapDel(MapPut(pDisk, path, <<"m1", "m2">>), ScratchPath(k))
        /\ pCall' = [pCall EXCEPT ![k].pc = "done",
                                  ![k].created = @ \cup {path},
                                  ![k].mainRef = [path |-> path, lines |-> 2],
                                  ![k].ret = Nil]
        /\ UNCHANGED nonPairVars

\* ctx is cancelled: the remote call the export is at fails and the export
\* returns, removing its scratch file
PairCancel ==
    \E k \in Calls :
      /\ pCall[k].pc \in {"history", "replies"}
      /\ pDisk' = MapDel(pDisk, ScratchPath(k))
      /\ pCall' = [pCall EXCEPT ![k].pc = "done", ![k].ret = ContextCanceled]
      /\ UNCHANGED pClock
      /\ UNCHANGED nonPairVars

PairNext ==
    \/ PairStart
    \/ PairCreateTemp
    \/ PairHistory
    \/ PairThreadCreate
    \/ PairThreadFlush
    \/ PairMain
    \/ PairCancel

\* C15: two concurrent calls of ExportChannel, on the same channel too, share
\* no file: no scratch file, main file or thread file is created or written by
\* both.
C15_CallsShareNoFile ==
    \A j, k \in Calls : j # k => pCall[j].created \cap pCall[k].created = {}

(***************************************************************************)
(* fetchAllChannels and getPageOfChannels.                                 *)
(***************************************************************************)
AllChannels == <<ChGen, ChGenAgain, ChDev, ChDirect, ChNoID>>

Listings ==
    {Pick(AllChannels, S) :
        S \in {T \in SUBSET (1..Len(AllChannels)) : Cardinality(T) <= MaxChannels}}

\* remote: the next cursor of a page of the channel listing, "" after the last
ListNextCursor(listing, cursor, page) ==
    IF PosOf(cursor) + Len(page) < Len(listing)
    THEN CursorAt(PosOf(cursor) + Len(page))
    ELSE NoCursor

\* fmt.Errorf("<text>: %s", err): the cause is formatted into the text, not kept
ErrorfText(text, err) ==
    [kind |-> "text", retryAfter |-> 0, wrap |-> <<text>> \o ErrorString(err)]

ListZero ==
    /\ fCtxDone = FALSE
    /\ fCursor = NoCursor
    /\ fNextCursor = NoCursor
    /\ fPage = <<>>
    /\ fChannels = <<>>
    /\ fPageCount = 0
    /\ fRateLimits = 0
    /\ fRet = Pending
    /\ fOut = <<>>

ListInit ==
    /\ ListZero
    /\ fListing \in Listings
    /\ fPageLen \in 1..MaxListPageLen
    /\ fPc = "select"

ListIdle ==
    /\ ListZero
    /\ fListing = <<>>
    /\ fPageLen = 1
    /\ fPc = "unused"

ListReturn(channels, err) ==
    /\ fPc' = "done"
    /\ fOut' = channels
    /\ fRet' = err

\* the caller's context is cancelled
ListCancel ==
    /\ fPc \in {"select", "call", "wait", "page", "after"}
    /\ ~fCtxDone
    /\ fCtxDone' = TRUE
    /\ UNCHANGED <<fListing, fPageLen, fPc, fCursor, fNextCursor, fPage, fChannels,
                   fPageCount, fRateLimits, fRet, fOut>>
    /\ UNCHANGED nonListVars

\* the head of the loop: select { case <-ctx.Done(): return; default: ... }
ListSelect ==
    /\ fPc = "select"
    /\ IF SelectDone(fCtxDone)
       THEN ListReturn(<<>>, CtxErr)
       ELSE fPc' = "call" /\ UNCHANGED <<fRet, fOut>>
    /\ UNCHANGED <<fListing, fPageLen, fCtxDone, fCursor, fNextCursor, fPage, fChannels,
                   fPageCount, fRateLimits>>
    /\ UNCHANGED nonListVars

\* getPageOfChannels: the remote answers the request made inside withRetry
ListPageResponse ==
    /\ fPc = "call"
    /\ \/ \* a page
          /\ ~fCtxDone
          /\ LET page == ServePage(fListing, fCursor, fPageLen) IN
               /\ fPage' = page
               /\ fNextCursor' = ListNextCursor(fListing, fCursor, page)
          /\ fPc' = "page"
          /\ UNCHANGED <<fRateLimits, fRet, fOut>>
       \/ \* a rate-limit error: withRetry waits
          /\ ~fCtxDone
          /\ fRateLimits < MaxRateLimits
          /\ \E d \in Durations : IsRateLimited(RateLimitedError(d))
          /\ fRateLimits' = fRateLimits + 1
          /\ fPc' = "wait"
          /\ fPage' = <<>>
          /\ fNextCursor' = NoCursor
          /\ UNCHANGED <<fRet, fOut>>
       \/ \* any other error: withRetry returns it, fetchAllChannels formats it
          /\ \E err \in (IF fCtxDone THEN {CtxErr} ELSE {OtherError}) :
               ListReturn(<<>>, ErrorfText("failed to get channels", err))
          /\ fPage' = <<>>
          /\ fNextCursor' = NoCursor
          /\ UNCHANGED fRateLimits
    /\ UNCHANGED <<fListing, fPageLen, fCtxDone, fCursor, fChannels, fPageCount>>
    /\ UNCHANGED nonListVars

\* withRetry's select is over
ListWaitOver ==
    /\ fPc = "wait"
    /\ IF SelectOutcome(IF fCtxDone THEN "ctx" ELSE "timer") = "continue"
       THEN fPc' = "call" /\ UNCHANGED <<fRet, fOut>>
       ELSE ListReturn(<<>>, ErrorfText("failed to get channels", CtxErr))
    /\ UNCHANGED <<fListing, fPageLen, fCtxDone, fCursor, fNextCursor, fPage, fChannels,
                   fPageCount, fRateLimits>>
    /\ UNCHANGED nonListVars

\* pageCount++; channels = append(channels, page...); cursor = nextCursor;
\* if cursor == "" { break }.  The break is inside the select, so it leaves the
\* select; so does reaching the end of the default case.
ListAppend ==
    /\ fPc = "page"
    /\ fPageCount' = fPageCount + 1
    /\ fChannels' = fChannels \o fPage
    /\ fCursor' = fNextCursor
    /\ fPc' = "after"
    /\ UNCHANGED <<fListing, fPageLen, fCtxDone, fNextCursor, fPage, fRateLimits, fRet,
                   fOut>>
    /\ UNCHANGED nonListVars

\* the statement after the select, in the body of the for: return channels, nil
ListReturnChannels ==
    /\ fPc = "after"
    /\ ListReturn(fChannels, Nil)
    /\ UNCHANGED <<fListing, fPageLen, fCtxDone, fCursor, fNextCursor, fPage, fChannels,
                   fPageCount, fRateLimits>>
    /\ UNCHANGED nonListVars

ListNext ==
    \/ ListCancel
    \/ ListSelect
    \/ ListPageResponse
    \/ ListWaitOver
    \/ ListAppend
    \/ ListReturnChannels

(***************************************************************************)
(* Claims about fetchAllChannels.                                          *)
(***************************************************************************)
\* the pages a listing of n channels spans
PagesOf(n, pageLen) == IF n = 0 THEN 1 ELSE (n + pageLen - 1) \div pageLen

\* C8: a fetchAllChannels that succeeds has paged until the remote returned an
\* empty next cursor; for a listing that spans P pages it made P successful
\* page requests and returns the channels of all P pages.
C8_FetchReturnsEveryPage ==
    (fPc = "done" /\ fRet = Nil) =>
        /\ fCursor = NoCursor
        /\ fPageCount = PagesOf(Len(fListing), fPageLen)
        /\ fOut = fListing

\* C39: on the index built from what fetchAllChannels returned, resolving the
\* empty name, given as "" or as "#", finds nothing: a conversation without a
\* name is not reachable by name.
C39_EmptyNameNeverResolves ==
    (fPc = "done") =>
        \A name \in {<<>>, <<"#">>} : ~LookupNow(newIndexOf(fOut), name).ok

(***************************************************************************)
(* findChannelID with a fetcher goroutine: the fetcher pages through the   *)
(* remote listing and sends each page on a channel with a buffer of one;   *)
(* findChannelID receives the pages, caches their channels and returns     *)
(* when it has seen the name.  Its deferred cancel() closes ctx.Done().    *)
(***************************************************************************)
\* make(chan channelPage, 1)
PagesCap == 1

SearchNames == {<<"g", "e", "n">>, <<"#", "D", "e", "v">>, <<"o", "p", "s">>}

channelPage(channels, err, nextCursor) ==
    [channels |-> channels, err |-> err, nextCursor |-> nextCursor]

NoResult == [id |-> <<>>, err |-> Pending]

SearchZero ==
    /\ gCtxDone = FALSE
    /\ gPages = <<>>
    /\ gClosed = FALSE
    /\ gFetchPc = "none"
    /\ gCursor = NoCursor
    /\ gPage = channelPage(<<>>, Nil, NoCursor)
    /\ gObserved = FALSE
    /\ gRequests = 0
    /\ gRateLimits = 0
    /\ gScan = <<>>
    /\ gRet = NoResult

SearchInit ==
    /\ SearchZero
    /\ gListing \in Listings
    /\ gPageLen \in 1..MaxListPageLen
    /\ gName \in SearchNames
    /\ gCache \in {<<>>, MapPut(<<>>, ChGen.nameNormalized, ChGen.id)}
    /\ gProcPc = "start"

SearchIdle ==
    /\ SearchZero
    /\ gListing = <<>>
    /\ gPageLen = 1
    /\ gName = <<>>
    /\ gCache = <<>>
    /\ gProcPc = "unused"

\* findChannelID returns: the deferred cancel() runs
SearchReturn(id, err) ==
    /\ gProcPc' = "done"
    /\ gRet' = [id |-> id, err |-> err]
    /\ gCtxDone' = TRUE

\* the name the search is for: without its '#', lowercased
SearchKey == ToLower(TrimPrefix(gName, <<"#">>))

\* findChannelID up to "go func()": the cache answers, or the fetcher is started
SearchStart ==
    /\ gProcPc = "start"
    /\ IF SearchKey \in DOMAIN gCache
       THEN /\ gProcPc' = "done"
            /\ gRet' = [id |-> gCache[SearchKey], err |-> Nil]
            /\ UNCHANGED <<gFetchPc, gCtxDone>>
       ELSE /\ gProcPc' = "recv"
            /\ gFetchPc' = "select"
            /\ UNCHANGED <<gRet, gCtxDone>>
    /\ UNCHANGED <<gListing, gPageLen, gName, gCache, gPages, gClosed, gCursor, gPage,
                   gObserved, gRequests, gRateLimits, gScan>>
    /\ UNCHANGED nonSearchVars

\* the context findChannelID was called with is cancelled by its owner
SearchParentCancel ==
    /\ gProcPc \in {"recv", "scan"}
    /\ ~gCtxDone
    /\ gCtxDone' = TRUE
    /\ UNCHANGED <<gListing, gPageLen, gName, gCache, gPages, gClosed, gFetchPc, gCursor,
                   gPage, gObserved, gRequests, gRateLimits, gProcPc, gScan, gRet>>
    /\ UNCHANGED nonSearchVars

\* "for page := range pages": a page is received, or the channel is closed and
\* drained and the loop ends
SearchReceive ==
    /\ gProcPc = "recv"
    /\ \/ /\ gPages # <<>>
          /\ gPages' = Tail(gPages)
          /\ IF Head(gPages).err # Nil
             THEN /\ SearchReturn(<<>>, Errorf("failed to list channels", Head(gPages).err))
                  /\ UNCHANGED gScan
             ELSE /\ gScan' = Head(gPages).channels
                  /\ gProcPc' = "scan"
                  /\ UNCHANGED <<gRet, gCtxDone>>
       \/ /\ gPages = <<>>
          /\ gClosed
          /\ SearchReturn(<<>>, NotFoundError(SearchKey, 0))
          /\ UNCHANGED <<gPages, gScan>>
    /\ UNCHANGED <<gListing, gPageLen, gName, gCache, gClosed, gFetchPc, gCursor, gPage,
                   gObserved, gRequests, gRateLimits>>
    /\ UNCHANGED nonSearchVars

\* one iteration of "for _, ch := range page.channels", or its end
SearchScan ==
    /\ gProcPc = "scan"
    /\ IF gScan = <<>>
       THEN /\ gProcPc' = "recv"
            /\ UNCHANGED <<gCache, gScan, gRet, gCtxDone>>
       ELSE /\ gCache' = MapPut(gCache, Head(gScan).nameNormalized, Head(gScan).id)
            /\ gScan' = Tail(gScan)
            /\ IF Head(gScan).nameNormalized = SearchKey
               THEN SearchReturn(Head(gScan).id, Nil)
               ELSE UNCHANGED <<gProcPc, gRet, gCtxDone>>
    /\ UNCHANGED <<gListing, gPageLen, gName, gPages, gClosed, gFetchPc, gCursor, gPage,
                   gObserved, gRequests, gRateLimits>>
    /\ UNCHANGED nonSearchVars

\* the fetcher returns: the deferred close(pages)
FetcherReturn ==
    /\ gFetchPc' = "done"
    /\ gClosed' = TRUE

\* the head of the fetcher's loop: select on ctx.Done() with a default, then
\* withRetry calls fn, which issues the page request
FetcherSelect ==
    /\ gFetchPc = "select"
    /\ IF SelectDone(gCtxDone)
       THEN /\ FetcherReturn
            /\ gObserved' = TRUE
            /\ UNCHANGED gRequests
       ELSE /\ gFetchPc' = "call"
            /\ gRequests' = gRequests + 1
            /\ UNCHANGED <<gClosed, gObserved>>
    /\ UNCHANGED <<gListing, gPageLen, gName, gCache, gCtxDone, gPages, gCursor, gPage,
                   gRateLimits, gProcPc, gScan, gRet>>
    /\ UNCHANGED nonSearchVars

\* the remote answers the request in flight: a page (the answer can still
\* arrive when ctx has just been cancelled), a rate-limit error, another
\* error, or the request is aborted by the cancelled ctx
FetcherResponse ==
    /\ gFetchPc = "call"
    /\ \/ /\ LET page == ServePage(gListing, gCursor, gPageLen) IN
               gPage' = channelPage(page, Nil, ListNextCursor(gListing, gCursor, page))
          /\ gFetchPc' = "send"
          /\ UNCHANGED <<gRateLimits, gObserved>>
       \/ /\ ~gCtxDone
          /\ gRateLimits < MaxRateLimits
          /\ gRateLimits' = gRateLimits + 1
          /\ gFetchPc' = "wait"
          /\ UNCHANGED <<gPage, gObserved>>
       \/ /\ \E err \in (IF gCtxDone THEN {CtxErr} ELSE {OtherError}) :
               /\ gPage' = channelPage(<<>>, err, NoCursor)
               /\ gObserved' = (gObserved \/ err = CtxErr)
          /\ gFetchPc' = "send"
          /\ UNCHANGED gRateLimits
    /\ UNCHANGED <<gListing, gPageLen, gName, gCache, gCtxDone, gPages, gClosed, gCursor,
                   gRequests, gProcPc, gScan, gRet>>
    /\ UNCHANGED nonSearchVars

\* withRetry's select is over: the timer has fired and fn issues the request
\* again, or the ctx.Done() case is taken and withRetry returns ctx.Err(); with
\* both ready either can be the one taken
FetcherWaitOver ==
    /\ gFetchPc = "wait"
    /\ \E case \in ReadyCases(0, gCtxDone) :
         IF SelectOutcome(case) = "continue"
         THEN /\ gFetchPc' = "call"
              /\ gRequests' = gRequests + 1
              /\ UNCHANGED <<gPage, gObserved>>
         ELSE /\ gPage' = channelPage(<<>>, CtxErr, NoCursor)
              /\ gObserved' = TRUE
              /\ gFetchPc' = "send"
              /\ UNCHANGED gRequests
    /\ UNCHANGED <<gListing, gPageLen, gName, gCache, gCtxDone, gPages, gClosed, gCursor,
                   gRateLimits, gProcPc, gScan, gRet>>
    /\ UNCHANGED nonSearchVars

\* the cases of "select { case pages <- page: ; case <-ctx.Done(): }" that are
\* ready: the send while the buffer has room, ctx.Done() once it is closed
SendCasesNoDone(buffered, ctxDone) == IF buffered < PagesCap THEN {"send"} ELSE {}
SendCases(buffered, ctxDone) ==
    (IF buffered < PagesCap THEN {"send"} ELSE {}) \cup (IF ctxDone THEN {"ctx"} ELSE {})

\* the fetcher sends the page or gives up; after a send it returns on an error
\* or on the last page, and goes round the loop otherwise
FetcherSend ==
    /\ gFetchPc = "send"
    /\ \E case \in SendCases(Len(gPages), gCtxDone) :
         IF case = "send"
         THEN /\ gPages' = Append(gPages, gPage)
              /\ UNCHANGED gObserved
              /\ IF gPage.err # Nil \/ gPage.nextCursor = NoCursor
                 THEN FetcherReturn /\ UNCHANGED gCursor
                 ELSE /\ gCursor' = gPage.nextCursor
                      /\ gFetchPc' = "select"
                      /\ UNCHANGED gClosed
         ELSE /\ FetcherReturn
              /\ gObserved' = TRUE
              /\ UNCHANGED <<gPages, gCursor>>
    /\ UNCHANGED <<gListing, gPageLen, gName, gCache, gCtxDone, gPage, gRequests,
                   gRateLimits, gProcPc, gScan, gRet>>
    /\ UNCHANGED nonSearchVars

FetcherNext == FetcherSelect \/ FetcherResponse \/ FetcherWaitOver \/ FetcherSend

SearchNext ==
    \/ SearchStart
    \/ SearchParentCancel
    \/ SearchReceive
    \/ SearchScan
    \/ FetcherSelect
    \/ FetcherResponse
    \/ FetcherWaitOver
    \/ FetcherSend

(***************************************************************************)
(* Claims about the concurrent name search.                                *)
(***************************************************************************)
FetcherGone == gFetchPc \in {"none", "done"}

\* C40: once findChannelID has returned, the fetcher goroutine terminates: it
\* is never left blocked in its send, and from the moment it has observed the
\* cancellation it issues no page request.
C40_FetcherTerminates ==
    /\ (gProcPc = "done") ~> FetcherGone
    /\ [][gObserved => gRequests' = gRequests]_vars
    /\ [](FetcherGone => (gFetchPc = "none" \/ gClosed))

C40_Witness ==
    /\ gProcPc = "done"
    /\ gRet = [id |-> ChGen.id, err |-> Nil]
    /\ gListing = <<ChGen, ChDev, ChDirect>>
    /\ gPageLen = 1
    /\ gFetchPc = "done"
    /\ gObserved
    /\ Len(gPages) = PagesCap
    /\ gRequests = 3

(***************************************************************************)
(* The top-level operations, by the remote calls they make.  A call site   *)
(* is [api, retried, onError, text]: retried says that the call is made    *)
(* inside withRetry; onError says what the operation does with the error   *)
(* of the call ("return": wrap it in text and return it, "ignore": go on). *)
(***************************************************************************)
Site(api, retried, onError, text) ==
    [api |-> api, retried |-> retried, onError |-> onError, text |-> text]

\* an operation with the variant of its input: GetUser with a user ID, with an
\* email only, or with neither; ReadCanvas with a channel, with a file ID, with
\* neither, or with both
Operations ==
    {"ListChannels", "ReadHistory", "SearchMessages", "GetUser.id", "GetUser.email",
     "GetUser.none", "GetPermalink", "ReadThread", "ReadCanvas.channel",
     "ReadCanvas.file", "ReadCanvas.none", "ReadCanvas.both", "ExportChannel"}

\* fmt.Errorf("<text>") of a parameter check
ValidationError(text) == [kind |-> "validation", retryAfter |-> 0, wrap |-> <<text>>]

\* the parameter checks an operation begins with: the error it returns, or Nil
ValidateNever(op) == Nil
Validate(op) ==
    CASE op = "GetUser.none" -> ValidationError("either user ID or email is required")
      [] op = "ReadCanvas.none" -> ValidationError("either channel or file_id is required")
      [] op = "ReadCanvas.both" ->
           ValidationError("provide either channel or file_id, not both")
      [] OTHER -> Nil

Sites(op) ==
    CASE op = "ListChannels" ->
           <<Site("conversations.list", FALSE, "return", "failed to list channels")>>
      [] op = "ReadHistory" ->
           <<Site("conversations.history", FALSE, "return", "failed to get history"),
             Site("users.info", FALSE, "ignore", "")>>
      [] op = "SearchMessages" ->
           <<Site("search.messages", FALSE, "return", "failed to search")>>
      [] op = "GetUser.id" ->
           <<Site("users.info", FALSE, "return", "failed to get user")>>
      [] op = "GetUser.email" ->
           <<Site("users.lookupByEmail", FALSE, "return", "failed to get user")>>
      [] op = "GetPermalink" ->
           <<Site("chat.getPermalink", FALSE, "return", "failed to get permalink")>>
      [] op = "ReadThread" ->
           <<Site("conversations.replies", FALSE, "return", "failed to get thread replies"),
             Site("users.info", FALSE, "ignore", "")>>
      [] op = "GetUser.none" -> <<>>
      [] op \in {"ReadCanvas.channel", "ReadCanvas.both"} ->
           <<Site("conversations.info", TRUE, "return", "failed to get channel info"),
             Site("files.info", TRUE, "return", "failed to get file info"),
             Site("files.download", TRUE, "return", "failed to download canvas")>>
      [] op \in {"ReadCanvas.file", "ReadCanvas.none"} ->
           <<Site("files.info", TRUE, "return", "failed to get file info"),
             Site("files.download", TRUE, "return", "failed to download canvas")>>
      [] op = "ExportChannel" ->
           <<Site("conversations.history", TRUE, "return", "failed to get history"),
             Site("users.info", TRUE, "ignore", ""),
             Site("conversations.replies", TRUE, "return", "failed to get thread replies")>>

CurrentSite == Sites(oOp)[oSite]

OpsZero ==
    /\ oSite = 1
    /\ oCtxDone = FALSE
    /\ oIssued = <<>>
    /\ oRateLimits = 0
    /\ oSwallowed = <<>>
    /\ oRet = Pending

OpsInit == OpsZero /\ oOp \in Operations /\ oPc = "validate"
OpsIdle == OpsZero /\ oOp = "none" /\ oPc = "unused"

\* remote: what it may answer a request with
RemoteAnswers ==
    IF oCtxDone THEN {CtxErr}
    ELSE {Nil, OtherError}
         \cup (IF oRateLimits < MaxRateLimits
               THEN {RateLimitedError(d) : d \in Durations} ELSE {})

\* the checks of the input before the operation's first remote call
OpsValidate ==
    /\ oPc = "validate"
    /\ IF Validate(oOp) # Nil
       THEN oPc' = "done" /\ oRet' = Validate(oOp)
       ELSE IF Sites(oOp) = <<>>
       THEN oPc' = "done" /\ oRet' = Nil
       ELSE oPc' = "call" /\ UNCHANGED oRet
    /\ UNCHANGED <<oOp, oSite, oCtxDone, oIssued, oRateLimits, oSwallowed>>
    /\ UNCHANGED nonOpsVars

\* the operation goes on after a call: to its next call site, or it returns nil
OpsAdvance ==
    IF oSite < Len(Sites(oOp))
    THEN oSite' = oSite + 1 /\ oPc' = "call" /\ UNCHANGED oRet
    ELSE oPc' = "done" /\ oRet' = Nil /\ UNCHANGED oSite

\* the operation has the error of the current call site in hand
OpsHandle(err) ==
    IF err = Nil
    THEN OpsAdvance /\ UNCHANGED oSwallowed
    ELSE IF CurrentSite.onError = "ignore"
    THEN OpsAdvance /\ oSwallowed' = Append(oSwallowed, err)
    ELSE /\ oPc' = "done"
         /\ oRet' = Errorf(CurrentSite.text, err)
         /\ UNCHANGED <<oSite, oSwallowed>>

OpsIssue ==
    /\ oIssued' = Append(oIssued, [api |-> CurrentSite.api, retried |-> CurrentSite.retried])

\* the caller's context is cancelled
OpsCancel ==
    /\ oPc \in {"validate", "call", "wait"}
    /\ ~oCtxDone
    /\ oCtxDone' = TRUE
    /\ UNCHANGED <<oOp, oSite, oPc, oIssued, oRateLimits, oSwallowed, oRet>>
    /\ UNCHANGED nonOpsVars

\* a call made directly on c.api: its error is the operation's to handle
OpsCallDirect ==
    /\ oPc = "call"
    /\ ~CurrentSite.retried
    /\ OpsIssue
    /\ \E err \in RemoteAnswers :
         /\ oRateLimits' = oRateLimits + (IF IsRateLimited(err) THEN 1 ELSE 0)
         /\ OpsHandle(err)
    /\ UNCHANGED <<oOp, oCtxDone>>
    /\ UNCHANGED nonOpsVars

\* a call made inside withRetry: a rate-limit error makes withRetry wait
OpsCallRetried ==
    /\ oPc = "call"
    /\ CurrentSite.retried
    /\ OpsIssue
    /\ \E err \in RemoteAnswers :
         /\ oRateLimits' = oRateLimits + (IF IsRateLimited(err) THEN 1 ELSE 0)
         /\ IF IsRateLimited(err)
            THEN oPc' = "wait" /\ UNCHANGED <<oSite, oSwallowed, oRet>>
            ELSE OpsHandle(err)
    /\ UNCHANGED <<oOp, oCtxDone>>
    /\ UNCHANGED nonOpsVars

\* withRetry's select is over
OpsWaitOver ==
    /\ oPc = "wait"
    /\ IF SelectOutcome(IF oCtxDone THEN "ctx" ELSE "timer") = "continue"
       THEN oPc' = "call" /\ UNCHANGED <<oSite, oSwallowed, oRet>>
       ELSE OpsHandle(CtxErr)
    /\ UNCHANGED <<oOp, oCtxDone, oIssued, oRateLimits>>
    /\ UNCHANGED nonOpsVars

OpsNext == OpsValidate \/ OpsCancel \/ OpsCallDirect \/ OpsCallRetried \/ OpsWaitOver

(***************************************************************************)
(* Claims about the operations.                                            *)
(***************************************************************************)
\* C5: every remote request of every operation is issued inside withRetry, and
\* no operation returns a rate-limit error to its caller.
C5_EveryRemoteCallRetried ==
    /\ \A i \in DOMAIN oIssued : oIssued[i].retried
    /\ (oPc = "done") => ~IsRateLimited(oRet)

\* the inputs with a required parameter missing or with conflicting parameters
BadInputs == {"GetUser.none", "ReadCanvas.none", "ReadCanvas.both"}

\* C37: ReadCanvas called with neither or with both of channel and file ID, and
\* GetUser called with neither user nor email, issue no remote request and
\* return a validation error.
C37_BadInputRejectedBeforeAnyCall ==
    (oOp \in BadInputs) =>
        /\ oIssued = <<>>
        /\ (oPc = "done") => (oRet.kind = "validation" /\ Len(oRet.wrap) = 1)

C37_Witness ==
    /\ oOp = "ReadCanvas.both"
    /\ oPc = "done"
    /\ oCtxDone
    /\ oRet = ValidationError("provide either channel or file_id, not both")
    /\ oIssued = <<>>

(***************************************************************************)
(* errorWrappingHandler: every tool call goes to the client's operation and *)
(* what the operation returns goes through WrapError.                      *)
(***************************************************************************)
\* the operation name each handler method passes to WrapError
HandlerOperation(op) ==
    CASE op = "ListChannels" -> "list_channels"
      [] op = "ReadHistory" -> "read_history"
      [] op = "SearchMessages" -> "search_messages"
      [] op \in {"GetUser.id", "GetUser.email", "GetUser.none"} -> "get_user"
      [] op = "GetPermalink" -> "get_permalink"
      [] op = "ReadThread" -> "read_thread"
      [] op = "ExportChannel" -> "export_channel"
      [] op \in {"ReadCanvas.channel", "ReadCanvas.file", "ReadCanvas.none",
                  "ReadCanvas.both"} -> "read_canvas"

\* the operations that begin with GetChannelID(input.Channel)
ResolvesChannel(op) ==
    op \in {"ReadHistory", "GetPermalink", "ReadThread", "ReadCanvas.channel", "ExportChannel"}

\* what a remote request can fail with
RemoteCodes == {"invalid_auth", "token_expired", "not_authed", "channel_not_found"}
RemoteErrors ==
    {SlackError(code) : code \in RemoteCodes}
    \cup {RateLimitedError(d) : d \in 1..MaxRetryAfter}
    \cup {ContextCanceled, OtherError}

\* channel names a tool can be called with that the directory does not hold
MissedNames == {<<"o", "p", "s">>, <<"invalid_auth">>, <<"token_expired", "-", "invalid_auth">>, <<>>}

\* the errors an operation can return to the handler
OperationErrors(op) ==
    IF Validate(op) # Nil THEN {Validate(op)} ELSE
    {Nil}
    \cup {Errorf(Sites(op)[i].text, err) :
            i \in {j \in DOMAIN Sites(op) : Sites(op)[j].onError = "return"},
            err \in RemoteErrors}
    \cup (IF ResolvesChannel(op)
          THEN {NotFoundError(name, n) : name \in MissedNames, n \in 0..MaxAdds}
          ELSE {})
    \cup (IF op = "ExportChannel"
          THEN {ContextCanceled,
                Errorf("failed to write thread file", ContextCanceled),
                Errorf("failed to create temp file", IOError),
                Errorf("failed to write thread file", Errorf("failed to flush", IOError))}
               \cup {Errorf("failed to write thread file",
                             Errorf("failed to get thread replies", err)) :
                       err \in RemoteErrors}
          ELSE {})

WrapZero == wErr = Nil /\ wOut = Nil
WrapInit == WrapZero /\ wOp \in Operations /\ wPc = "call"
WrapIdle == WrapZero /\ wOp = "none" /\ wPc = "unused"

\* result, output, err := h.handler.<Operation>(ctx, req, input)
HandlerCall ==
    /\ wPc = "call"
    /\ wErr' \in OperationErrors(wOp)
    /\ wPc' = "returned"
    /\ UNCHANGED <<wOp, wOut>>
    /\ UNCHANGED nonWrapVars

\* return result, output, slackclient.WrapError(h.logger, "<operation>", err)
HandlerReturn ==
    /\ wPc = "returned"
    /\ wOut' \in WrapError(HandlerOperation(wOp), wErr)
    /\ wPc' = "done"
    /\ UNCHANGED <<wOp, wErr>>
    /\ UNCHANGED nonWrapVars

WrapNext == HandlerCall \/ HandlerReturn

(***************************************************************************)
(* Claims about the author cache and the order of the export's passes.     *)
(***************************************************************************)
\* C31 as stated: within one ExportChannel call the get-user lookup is issued at
\* most once per distinct author.
C31_OneLookupPerAuthor == \A u \in Users : eUserCalls[u] <= 1

\* C31: the cache starts empty; a lookup is issued only for an author whose
\* name is not cached; a name once cached stays cached, so after a lookup that
\* succeeded no later message by that author issues one.  (A lookup that
\* failed caches nothing and the author's next message issues it again.)
C31_NoLookupOnceCached ==
    /\ [](ePc = "start" => (eUserNames = {} /\ \A u \in Users : eUserCalls[u] = 0))
    /\ [][/\ eUserNames \subseteq eUserNames'
          /\ \A u \in Users :
                eUserCalls'[u] # eUserCalls[u] =>
                    /\ u \notin eUserNames
                    /\ eUserCalls'[u] = eUserCalls[u] + 1]_vars

C31_Witness ==
    /\ ExportSucceeded
    /\ eUserCalls["U1"] = 2
    /\ eLookupFails = 1
    /\ "U1" \in eUserNames
    /\ Len(eDelivered) = 3
    /\ Len(eThreadRefs) >= 1

\* the export is fetching or writing a thread
InThreadPass ==
    \/ ePc \in {"tLoop", "tCall", "tMsgs"}
    \/ ePc = "wait" /\ eWaitOf = "thread"

\* every message list-history delivered is a line of the scratch file
HistoryWritten ==
    /\ Len(eRecords) = Len(eDelivered)
    /\ Len(eOffsets) = Len(eDelivered)
    /\ eTmp.exists
    /\ SplitLines(eTmp.bytes) = eRecords

\* C32 as stated: the passes run in the order forward, reversal, thread; the
\* reversal begins only with every history page written, no history page is
\* requested afterwards, and a thread is fetched only once the main output file
\* has been written.
C32_ForwardReversalThread ==
    /\ (ePc = "reverse") => HistoryWritten
    /\ (ePc = "reverse") => ePage = <<>>
    /\ InThreadPass => eMain.exists

\* C32: the passes run in the order forward, thread, reversal.  The reversal
\* begins only with every delivered history message written to the scratch
\* file and every remembered thread written to its file; once the thread pass
\* or the reversal has begun no history page is delivered; and the main output
\* file does not exist while a thread is fetched or before the reversal.
C32_ForwardThreadReversal ==
    /\ []((ePc = "reverse") =>
            /\ HistoryWritten
            /\ eThreadIdx = Len(eThreads)
            /\ Len(eThreadRefs) = Len(eThreads)
            /\ \A i \in DOMAIN eThreadFiles : eThreadFiles[i].complete)
    /\ []((InThreadPass \/ ePc \in {"tNext", "reverse"}) => ~eMain.exists)
    /\ [][/\ (InThreadPass \/ ePc \in {"tNext", "reverse", "done"}) =>
                /\ eDelivered' = eDelivered
                /\ eRecords' = eRecords
                /\ ePc' \notin {"start", "hLoop", "hCall", "hMsgs"}
          /\ (ePc' = "reverse" /\ ePc # "reverse") => ePc = "tNext"
          /\ (eMain'.exists /\ ~eMain.exists) => (ePc = "reverse" /\ ePc' = "done")]_vars

C32_Witness ==
    /\ ePc = "reverse"
    /\ Len(eDelivered) = 3
    /\ Len(eThreads) = 2
    /\ Len(eThreadRefs) = 2
    /\ Len(eReplies) > 0
    /\ ~eMain.exists
    /\ eTmp.exists

\* the value of the "user" field of every line of the main file and of the
\* thread files
ExportedUsers ==
    {line[4] : line \in {SplitLines(eMain.bytes)[i] : i \in DOMAIN SplitLines(eMain.bytes)}}
    \cup UNION {{eThreadFiles[k].lines[i][4] : i \in DOMAIN eThreadFiles[k].lines} :
                  k \in DOMAIN eThreadFiles}

\* C35: after a successful export the unique-author count of the result is the
\* number of distinct author IDs of the exported messages, top-level messages
\* and replies together; a message that has no author ID adds no author.
C35_UniqueUsersAreTheAuthors ==
    ExportSucceeded =>
        Cardinality(eOut.stats.uniqueUsers) = Cardinality(ExportedUsers \ {""})

\* the distinct top-level messages delivered that have replies
ThreadParents == {eDelivered[i] : i \in {j \in DOMAIN eDelivered : eDelivered[j].replyCount > 0}}

\* C36: after a successful export the thread count of the result is the number
\* of thread files returned, and that is the number of distinct top-level
\* messages with a reply count above zero.
C36_ThreadCountIsThreadFiles ==
    ExportSucceeded =>
        /\ eOut.stats.threadCount = Len(eOut.threadFiles)
        /\ Len(eOut.threadFiles) = Cardinality(ThreadParents)

C36_Witness ==
    /\ ExportSucceeded
    /\ eDelivered = <<M1, M2, M4>>
    /\ eOut.stats.threadCount = 2
    /\ Len(eOut.threadFiles) = 2
    /\ eRateLimits = 1

\* the replies list-thread-replies has returned for the thread being written
ReturnedReplies ==
    {eReplies[i] : i \in {j \in DOMAIN eReplies : eReplies[j].ts # CurrentParent.ts}}

\* the number of distinct replies, by timestamp, in the thread files
RECURSIVE DistinctReplies(_)
DistinctReplies(files) ==
    IF files = <<>> THEN 0
    ELSE Cardinality({files[1].lines[i][2] : i \in 2..Len(files[1].lines)})
         + DistinctReplies(Tail(files))

\* C38: when a thread has been written, each reply that list-thread-replies
\* returned is exactly one line of the thread file, and after a successful
\* export each such reply is counted once in the message count, rate-limited
\* and retried page requests included.
C38_EachReplyOnce ==
    /\ ThreadJustWritten =>
          \A reply \in ReturnedReplies :
              Cardinality({i \in DOMAIN eThreadFiles[eThreadIdx].lines :
                              eThreadFiles[eThreadIdx].lines[i]
                                  \in ReplyRecordsOf(reply, CurrentParent)}) = 1
    /\ ExportSucceeded =>
          eOut.stats.messageCount = Len(eDelivered) + DistinctReplies(eThreadFiles)

(***************************************************************************)
(* Claims about the errors a tool call delivers.                           *)
(***************************************************************************)
\* the authentication codes found anywhere in the text of the operation's error
Carried == {code \in DOMAIN authErrorCodes :
              \E i \in DOMAIN ErrorString(wErr) : ErrorString(wErr)[i] = code}

\* C22: when the channel name is not in the directory, the error the tool's
\* caller gets is the not-found error, and its text holds the name that was
\* looked up and the number of entries of the directory.
C22_MissDeliveredAsNotFound ==
    (wPc = "done" /\ wErr.kind = "not_found") =>
        /\ wOut.kind = "not_found"
        /\ wOut.name = wErr.name
        /\ \E i \in DOMAIN ErrorString(wOut) :
               ErrorString(wOut)[i] = ToString(wErr.entries)

\* C26: when the operation was aborted by cancellation, the error the tool's
\* caller gets is the cancellation with no text put in front of it.
C26_CancellationDeliveredBare ==
    (wPc = "done" /\ wErr.kind = "context_canceled") =>
        /\ wOut.kind = "context_canceled"
        /\ wOut.wrap = <<>>

\* C27: an error that fetchAllChannels returns with its text put in front is
\* still the remote error or the cancellation it was made from.
C27_WrappedErrorKeepsCause ==
    (fPc = "done" /\ fRet # Nil) =>
        fRet.kind \in {"context_canceled", "rate_limited", "other", "slack"}

\* C28: WrapError returns nil for nil; an AuthError with a known code that the
\* error's text carries, and that code's guidance, when the text carries one;
\* and otherwise the same error with the operation name put in front.
C28_WrapErrorClassifies ==
    (wPc = "done") =>
        /\ (wErr = Nil) => (wOut = Nil)
        /\ (wErr # Nil /\ Carried = {}) =>
              /\ wOut = [wErr EXCEPT !.wrap = <<HandlerOperation(wOp)>> \o @]
              /\ ErrorString(wOut) = <<HandlerOperation(wOp)>> \o ErrorString(wErr)
        /\ (wErr # Nil /\ Carried # {}) =>
              /\ wOut.kind = "auth"
              /\ wOut.code \in Carried
              /\ wOut.message = authErrorCodes[wOut.code]
              /\ DOMAIN wOut = {"kind", "retryAfter", "wrap", "code", "message"}

C28_Witness ==
    /\ wPc = "done"
    /\ wOp = "ReadHistory"
    /\ wErr = Errorf("failed to get history", SlackError("token_expired"))
    /\ wOut.kind = "auth"
    /\ wOut.code = "token_expired"
    /\ wOut.message = "Authentication token has expired. Please refresh your SLACK_TOKEN and SLACK_COOKIE."

(***************************************************************************)
(* Specifications, one per component.                                      *)
(***************************************************************************)
\* the initial states: one component starts a call, the others stay unused
(***************************************************************************)
(* The pagination loops together: history and threads of an export, and    *)
(* fetchAllChannels.                                                       *)
(***************************************************************************)
LoopsNext == ExportNext \/ ListNext

\* C25: when ctx is already cancelled as an iteration of a pagination loop
\* begins (the history loop, the thread loop, the loop of fetchAllChannels),
\* the step the operation takes issues no page request and returns, and the
\* error it returns is the cancellation.
C25_CancelledAtLoopHeadReturns ==
    [][/\ (ePc \in {"hLoop", "tLoop"} /\ eCtxDone /\ exportVars' # exportVars) =>
            /\ ePc' = "done"
            /\ eRet'.kind = "context_canceled"
            /\ eRequests' = eRequests
       /\ (fPc = "select" /\ fCtxDone /\ listVars' # listVars) =>
            /\ fPc' = "done"
            /\ fRet'.kind = "context_canceled"]_vars

\* an export cancelled between its first page of history and the second
C25_Witness ==
    /\ ePc = "done"
    /\ eRet = ContextCanceled
    /\ ePages = 1
    /\ eRequests = 1
    /\ Len(eDelivered) = 2

InitRetry == RetryInit /\ PairIdle /\ ShapeIdle /\ ExportIdle /\ DirIdle /\ ListIdle /\ OpsIdle /\ WrapIdle /\ SearchIdle
InitExport == ExportInit /\ PairIdle /\ ShapeIdle /\ RetryIdle /\ DirIdle /\ ListIdle /\ OpsIdle /\ WrapIdle /\ SearchIdle
InitDir == DirInit /\ PairIdle /\ ShapeIdle /\ RetryIdle /\ ExportIdle /\ ListIdle /\ OpsIdle /\ WrapIdle /\ SearchIdle
InitList == ListInit /\ PairIdle /\ ShapeIdle /\ RetryIdle /\ ExportIdle /\ DirIdle /\ OpsIdle /\ WrapIdle /\ SearchIdle
InitOps == OpsInit /\ PairIdle /\ ShapeIdle /\ RetryIdle /\ ExportIdle /\ DirIdle /\ ListIdle /\ WrapIdle /\ SearchIdle

InitShape == ShapeInit /\ PairIdle /\ RetryIdle /\ ExportIdle /\ DirIdle /\ ListIdle /\ OpsIdle /\ WrapIdle /\ SearchIdle

InitPair ==
    PairInit /\ RetryIdle /\ ExportIdle /\ DirIdle /\ ListIdle /\ OpsIdle /\ ShapeIdle /\ WrapIdle /\ SearchIdle

\* either an export or a population of the directory
InitLoops ==
    /\ \/ ExportInit /\ ListIdle
       \/ ListInit /\ ExportIdle
    /\ RetryIdle /\ DirIdle /\ OpsIdle /\ ShapeIdle /\ PairIdle /\ WrapIdle /\ SearchIdle

InitWrap ==
    WrapInit /\ RetryIdle /\ ExportIdle /\ DirIdle /\ ListIdle /\ OpsIdle /\ ShapeIdle /\ PairIdle
    /\ SearchIdle

InitSearch ==
    SearchInit /\ RetryIdle /\ ExportIdle /\ DirIdle /\ ListIdle /\ OpsIdle /\ ShapeIdle
    /\ PairIdle /\ WrapIdle

SpecRetry == InitRetry /\ [][RetryNext]_vars
SpecExport == InitExport /\ [][ExportNext]_vars
SpecDir == InitDir /\ [][DirNext]_vars
SpecList == InitList /\ [][ListNext]_vars
SpecOps == InitOps /\ [][OpsNext]_vars
SpecShape == InitShape /\ [][ShapeNext]_vars
SpecPair == InitPair /\ [][PairNext]_vars
SpecLoops == InitLoops /\ [][LoopsNext]_vars
SpecWrap == InitWrap /\ [][WrapNext]_vars
SpecSearch == InitSearch /\ [][SearchNext]_vars

\* the fetcher goroutine is scheduled whenever it can take a step: a request in
\* flight is answered, a timer fires, a select with a ready case completes
SpecSearchLive == SpecSearch /\ WF_vars(FetcherNext)

====
